---- MODULE Spec2Model ----
(***************************************************************************)
(* ChatSnapshot event-sourcing kernel: the Observer (record / record_raw,  *)
(* subscribe / unsubscribe, fan-out, initialize / close) over an           *)
(* EventStore that is either the in-memory list or the SQLite table.       *)
(*                                                                         *)
(* Producers are asyncio tasks.  A task runs without interruption between  *)
(* two suspension points, so every action below is one such run.           *)
(* MemoryEventStore's coroutines contain no await: they never suspend.     *)
(* SQLiteEventStore's calls go through aiosqlite, whose connection runs    *)
(* the submitted functions one after another on a single worker thread     *)
(* (sqlq) and shares one implicit transaction between all callers.         *)
(***************************************************************************)
EXTENDS Integers, Sequences, FiniteSets, TLC

\* ---- bounds of the model ----
MaxEvents == 2         \* events created or stored
MaxSubscribes == 2     \* subscribe calls
MaxInitializes == 1    \* connections opened by initialize
MaxClock == 0          \* the clock runs from 0 to MaxClock
MaxStored == 2         \* events held by a store driven through its API
MaxStoreClock == 1     \* timestamps of the envelopes handed to such a store
MaxCallerClock == 1    \* the clock of the host of a single caller runs from 0 to this
MaxProjected == 2      \* events in a sequence handed to a projection

\* call slots: at most two record/record_raw calls are in progress at once,
\* and a new call takes the lowest free slot

Tasks == {1, 2}
Backends == {"memory", "sqlite"}
EventTypes == {"execution.message"}
CorrelationIds == {"session_001"}
Callbacks == {"callback"}
Payloads == {"Hello"}
None == "None"

VARIABLES
    backend,         \* which EventStore the Observer owns
    initialized,     \* MemoryEventStore._initialized
    db,              \* SQLiteEventStore._db is an open connection
    connGen,         \* which aiosqlite connection _db is (0: none yet)
    events,          \* MemoryEventStore._events / committed rows of the table
    pending,         \* rows inserted in the connection's open transaction
    sqlq,            \* functions queued on the aiosqlite worker thread
    subscriptions,   \* Observer._subscriptions, in insertion order
    now,             \* datetime.now()
    clockMax,        \* the latest time the host's clock shows during the run
    nextEventId,     \* uuid4 values drawn for event ids
    nextSubId,       \* uuid4 values drawn for subscription ids
    pc,              \* where each producer task is suspended
    cur,             \* the locals of each task's call in progress
    hist,            \* history: the call in progress in each slot
    last,            \* history: the call that finished most recently
    unsubscribed,    \* history: ids for which unsubscribe returned True
    closedSids,      \* history: ids removed from the registry by close()
    closeReturned,   \* history: some close() call has returned
    audit,           \* history: whether unsubscribe calls are logged
    lastUnsub,       \* history: argument and result of the latest unsubscribe
    memStore,        \* a MemoryEventStore driven through the EventStore API
    jsonStore,       \* a JSONEventStore driven through the EventStore API
    jsonFile,        \* the events.jsonl file of the JSONEventStore
    sqliteStore,     \* a SQLiteEventStore driven through the EventStore API
    sqliteFile,      \* the database file of the SQLiteEventStore
    lastCall,        \* the latest EventStore call and how it ended per store
    instance,        \* history: what was called on the current instances
    appended,        \* history: the envelopes each store accepted
    fnCall           \* the latest call of a function of the library that keeps no
                     \* state: its name, its argument and what it returned

vars == <<backend, initialized, db, connGen, events, pending, sqlq,
          subscriptions, now, clockMax, nextEventId, nextSubId, pc, cur, hist,
          last, unsubscribed, closedSids, closeReturned, audit, lastUnsub,
          memStore, jsonStore, jsonFile, sqliteStore, sqliteFile, lastCall,
          instance, appended, fnCall>>

observerVars == <<backend, initialized, db, connGen, events, pending, sqlq,
                  subscriptions, now, clockMax, nextEventId, nextSubId, pc, cur,
                  hist, last, unsubscribed, closedSids, closeReturned, audit,
                  lastUnsub>>

apiVars == <<memStore, jsonStore, jsonFile, sqliteStore, sqliteFile, lastCall,
             instance, appended>>

storeVars == <<backend, initialized, db, connGen, events, pending, sqlq>>

auditVars == <<audit, lastUnsub>>

hostVars == <<clockMax>>

fnVars == <<fnCall>>

\* ---- events/envelope.py ----

\* what datetime.now() can return: the local time of the host's clock, which
\* runs on but can also be set back (clock adjustment, end of daylight
\* saving time)
DatetimeNow == 0..clockMax

DefaultSource == [origin |-> "system", runtime |-> "none", agent_name |-> None]

\* uuid.uuid4(): a value no earlier draw returned
Uuid4Repeats(counter) == 1

Uuid4(counter) == counter

\* the argument source left at its default, None
NoSource == [origin |-> None, runtime |-> None, agent_name |-> None]

\* datetime.now() reads the clock (now'), which may have advanced since the
\* previous reading
EventEnvelopeCreate(event_type, correlation_id, payload, source, causation_id) ==
    [event_id |-> Uuid4(nextEventId),
     event_type |-> event_type,
     timestamp |-> now',
     source |-> IF source = NoSource THEN DefaultSource ELSE source,
     correlation_id |-> correlation_id,
     payload |-> payload,
     causation_id |-> causation_id]

NoEvent == [event_id |-> 0, event_type |-> None, timestamp |-> 0,
            source |-> DefaultSource, correlation_id |-> None,
            payload |-> None, causation_id |-> None]

NoCall == [event |-> NoEvent, coros |-> <<>>, cbstate |-> <<>>]

\* ---- helpers ----

Range(s) == {s[i] : i \in 1..Len(s)}

Sids(subs) == {subs[i].sid : i \in 1..Len(subs)}

Rows == events \o pending

EventIds(rows) == {rows[i].event_id : i \in 1..Len(rows)}

RECURSIVE InsertByTimestampBeforeEqual(_, _)
InsertByTimestampBeforeEqual(sorted, e) ==
    IF sorted = <<>> THEN <<e>>
    ELSE IF sorted[Len(sorted)].timestamp < e.timestamp THEN Append(sorted, e)
    ELSE Append(InsertByTimestampBeforeEqual(SubSeq(sorted, 1, Len(sorted) - 1), e),
                sorted[Len(sorted)])

RECURSIVE InsertByTimestamp(_, _)
InsertByTimestamp(sorted, e) ==
    IF sorted = <<>> THEN <<e>>
    ELSE IF sorted[Len(sorted)].timestamp <= e.timestamp THEN Append(sorted, e)
    ELSE Append(InsertByTimestamp(SubSeq(sorted, 1, Len(sorted) - 1), e), sorted[Len(sorted)])

SortedByTimestampUnsorted(rows) == rows

RECURSIVE SortedByTimestamp(_)
SortedByTimestamp(rows) ==
    IF rows = <<>> THEN <<>>
    ELSE InsertByTimestamp(SortedByTimestamp(SubSeq(rows, 1, Len(rows) - 1)), rows[Len(rows)])

StoreUsable == backend = "memory" \/ db

get_all == SortedByTimestamp(Rows)

query(correlation_id) ==
    SortedByTimestamp(SelectSeq(Rows, LAMBDA e : e.correlation_id = correlation_id))

count == Len(Rows)

\* ---- history records (not program state) ----

NoHist ==
    [snap |-> {}, started |-> <<>>, ended |-> {}, failed |-> FALSE, atCall |-> {}]

\* ---- storage/memory_store.py ----

MemoryAppendLost(list, ev) == list

MemoryAppend(list, ev) == Append(list, ev)

\* ---- observer.py: _notify_subscribers / _safe_callback ----

\* the coroutines _notify_subscribers creates, one per registry item
NotifyTasksSkipsFirst(subs) == IF subs = <<>> THEN <<>> ELSE Tail(subs)

NotifyTasks(subs) == subs

NotifyPc == IF NotifyTasks(subscriptions) = <<>> THEN "idle" ELSE "notifying"

NotifyCur(ev) ==
    IF NotifyTasks(subscriptions) = <<>> THEN NoCall
    ELSE [event |-> ev,
          coros |-> NotifyTasks(subscriptions),
          cbstate |-> [i \in 1..Len(NotifyTasks(subscriptions)) |-> "pending"]]


\* the registry at the moment record is called, kept when the calls are logged
RegistryAtCall == IF audit THEN Sids(subscriptions) ELSE {}

\* the history after the append has returned: the call goes on in its slot,
\* or has already returned when there is nobody to notify
AfterAppend(t) ==
    IF NotifyTasks(subscriptions) = <<>>
    THEN hist' = [hist EXCEPT ![t] = NoHist] /\ last' = "returned"
    ELSE hist' = [hist EXCEPT ![t] =
                     [NoHist EXCEPT !.snap = Sids(subscriptions),
                                    !.atCall = IF pc[t] = "idle" THEN RegistryAtCall
                                               ELSE hist[t].atCall]]
         /\ last' = last

Finished(t, status) ==
    hist' = [hist EXCEPT ![t] = NoHist] /\ last' = status

\* what _safe_callback does with the callback's outcome: an Exception is
\* logged and swallowed, so the coroutine returns in both cases
SafeCallbackPropagates(outcome) == IF outcome = "failed" THEN "raised" ELSE "returned"

SafeCallback(outcome) == "returned"

\* await asyncio.gather(*tasks): resumes when every coroutine has finished
GatherFirstCompleted(cbstate) == \E i \in DOMAIN cbstate : cbstate[i] = "finished"

GatherDone(cbstate) == \A i \in DOMAIN cbstate : cbstate[i] = "finished"

\* ---- observer.py: record / record_raw up to the await of store.append ----

FreeSlot(t) ==
    /\ pc[t] = "idle"
    /\ \A u \in Tasks : u < t => pc[u] # "idle"

StoreAppendBegin(t, ev) ==
    \/ /\ backend = "memory"
       /\ events' = MemoryAppend(events, ev)
       /\ pc' = [pc EXCEPT ![t] = NotifyPc]
       /\ cur' = [cur EXCEPT ![t] = NotifyCur(ev)]
       /\ AfterAppend(t)
       /\ UNCHANGED <<pending, sqlq>>
    \/ /\ backend = "sqlite" /\ ~db
       \* self._db is None: the attribute access raises before any await
       /\ Finished(t, "raised")
       /\ UNCHANGED <<events, pending, sqlq, pc, cur>>
    \/ /\ backend = "sqlite" /\ db
       /\ sqlq' = Append(sqlq, [kind |-> "insert", task |-> t, gen |-> connGen])
       /\ pc' = [pc EXCEPT ![t] = "append_execute"]
       /\ cur' = [cur EXCEPT ![t] = [event |-> ev, coros |-> <<>>, cbstate |-> <<>>]]
       /\ hist' = [hist EXCEPT ![t].atCall = RegistryAtCall]
       /\ last' = last
       /\ UNCHANGED <<events, pending>>
    \/ /\ backend = "json"
       \* async with aiofiles.open(self._events_file, "a"): the open runs in
       \* the executor
       /\ pc' = [pc EXCEPT ![t] = "append_open"]
       /\ cur' = [cur EXCEPT ![t] = [event |-> ev, coros |-> <<>>, cbstate |-> <<>>]]
       /\ UNCHANGED <<hist, last>>
       /\ UNCHANGED <<events, pending, sqlq>>

\* Observer.record with its optional arguments source and causation_id
RecordStep(t, event_type, correlation_id, payload, source, causation_id) ==
    /\ FreeSlot(t)
    /\ nextEventId <= MaxEvents
    /\ Len(Rows) < MaxEvents
    /\ now' \in DatetimeNow
    /\ StoreAppendBegin(t,
           EventEnvelopeCreate(event_type, correlation_id, payload, source,
                               causation_id))
    /\ nextEventId' = nextEventId + 1
    /\ UNCHANGED auditVars
    /\ UNCHANGED apiVars
    /\ UNCHANGED hostVars
    /\ UNCHANGED <<backend, initialized, db, connGen, subscriptions,
                   nextSubId, unsubscribed, closedSids, closeReturned>>

Record(t, event_type, correlation_id, payload) ==
    /\ RecordStep(t, event_type, correlation_id, payload, NoSource, None)
    /\ UNCHANGED fnVars

\* the envelopes a caller of record_raw can have built with
\* EventEnvelope.create at this moment
CallerEnvelopes ==
    {[event_id |-> Uuid4(nextEventId),
      event_type |-> et,
      timestamp |-> ts,
      source |-> DefaultSource,
      correlation_id |-> c,
      payload |-> p,
      causation_id |-> None] :
         et \in EventTypes, ts \in DatetimeNow,
         c \in CorrelationIds, p \in Payloads}

\* every envelope there can be
Envelopes ==
    [event_id : 1..MaxEvents, event_type : EventTypes, timestamp : 0..MaxClock,
     source : {DefaultSource}, correlation_id : CorrelationIds,
     payload : Payloads, causation_id : {None}]

\* record_raw: the caller hands in an envelope it has just built, or one it
\* read back from the store (replay)
RecordRawNewId(t, event) ==
    /\ FreeSlot(t)
    /\ event \in Range(Rows) \cup CallerEnvelopes
    /\ Len(Rows) < MaxEvents
    /\ IF event \in Range(Rows)
       THEN UNCHANGED <<now, nextEventId>>
       ELSE /\ nextEventId <= MaxEvents
            /\ event \in CallerEnvelopes
            /\ now' = event.timestamp
            /\ nextEventId' = nextEventId + 1
    /\ StoreAppendBegin(t, [event EXCEPT !.event_id = Uuid4(nextEventId)])
    /\ UNCHANGED auditVars
    /\ UNCHANGED apiVars
    /\ UNCHANGED hostVars
    /\ UNCHANGED fnVars
    /\ UNCHANGED <<backend, initialized, db, connGen, subscriptions,
                   nextSubId, unsubscribed, closedSids, closeReturned>>

RecordRaw(t, event) ==
    /\ FreeSlot(t)
    /\ event \in Range(Rows) \cup CallerEnvelopes
    /\ Len(Rows) < MaxEvents
    /\ IF event \in Range(Rows)
       THEN UNCHANGED <<now, nextEventId>>
       ELSE /\ nextEventId <= MaxEvents
            /\ event \in CallerEnvelopes
            /\ now' = event.timestamp
            /\ nextEventId' = nextEventId + 1
    /\ StoreAppendBegin(t, event)
    /\ UNCHANGED auditVars
    /\ UNCHANGED apiVars
    /\ UNCHANGED hostVars
    /\ UNCHANGED fnVars
    /\ UNCHANGED <<backend, initialized, db, connGen, subscriptions,
                   nextSubId, unsubscribed, closedSids, closeReturned>>

\* ---- storage/sqlite_store.py: append, run by the aiosqlite worker ----

\* INSERT INTO events: the UNIQUE(event_id) constraint and the connection
\* decide; on success the task goes on to call self._db.commit()
SqlInsert(t) ==
    /\ sqlq # <<>>
    /\ sqlq[1].kind = "insert" /\ sqlq[1].task = t
    /\ LET ev == cur[t].event
           ok == /\ db /\ sqlq[1].gen = connGen
                 /\ ev.event_id \notin EventIds(Rows)   \* event_id TEXT UNIQUE
                 /\ ev.correlation_id # None           \* correlation_id TEXT NOT NULL
       IN IF ok
          THEN /\ pending' = Append(pending, ev)
               /\ sqlq' = Append(Tail(sqlq), [kind |-> "commit", task |-> t, gen |-> connGen])
               /\ pc' = [pc EXCEPT ![t] = "append_commit"]
               /\ UNCHANGED <<cur, hist, last>>
          ELSE /\ sqlq' = Tail(sqlq)
               /\ pc' = [pc EXCEPT ![t] = "idle"]
               /\ cur' = [cur EXCEPT ![t] = NoCall]
               /\ Finished(t, "raised")
               /\ pending' = pending
    /\ UNCHANGED auditVars
    /\ UNCHANGED apiVars
    /\ UNCHANGED hostVars
    /\ UNCHANGED fnVars
    /\ UNCHANGED <<backend, initialized, db, connGen, events, subscriptions, now,
                   nextEventId, nextSubId, unsubscribed, closedSids,
                   closeReturned>>

\* commit(): makes every row of the connection's transaction durable, then
\* append returns and the caller takes the registry for the fan-out
SqlCommit(t) ==
    /\ sqlq # <<>>
    /\ sqlq[1].kind = "commit" /\ sqlq[1].task = t
    /\ sqlq' = Tail(sqlq)
    /\ LET ev == cur[t].event
           ok == db /\ sqlq[1].gen = connGen
       IN IF ok
          THEN /\ events' = events \o pending
               /\ pending' = <<>>
               /\ pc' = [pc EXCEPT ![t] = NotifyPc]
               /\ cur' = [cur EXCEPT ![t] = NotifyCur(ev)]
               /\ AfterAppend(t)
          ELSE /\ pc' = [pc EXCEPT ![t] = "idle"]
               /\ cur' = [cur EXCEPT ![t] = NoCall]
               /\ Finished(t, "raised")
               /\ UNCHANGED <<events, pending>>
    /\ UNCHANGED auditVars
    /\ UNCHANGED apiVars
    /\ UNCHANGED hostVars
    /\ UNCHANGED fnVars
    /\ UNCHANGED <<backend, initialized, db, connGen, subscriptions, now,
                   nextEventId, nextSubId, unsubscribed, closedSids,
                   closeReturned>>

\* ---- observer.py: the fan-out ----

\* asyncio.gather starts the coroutines in the order they were created
CallbackStartSequential(t, i) ==
    /\ pc[t] = "notifying"
    /\ i \in 1..Len(cur[t].coros)
    /\ cur[t].cbstate[i] = "pending"
    /\ \A j \in 1..(i - 1) : cur[t].cbstate[j] = "finished"
    /\ cur' = [cur EXCEPT ![t].cbstate[i] = "running"]
    /\ hist' = [hist EXCEPT ![t].started =
                    Append(@, [sid |-> cur[t].coros[i].sid,
                               event_id |-> cur[t].event.event_id])]
    /\ UNCHANGED auditVars
    /\ UNCHANGED apiVars
    /\ UNCHANGED hostVars
    /\ UNCHANGED fnVars
    /\ UNCHANGED <<storeVars, subscriptions, now, nextEventId, nextSubId, pc, last,
                   unsubscribed, closedSids, closeReturned>>

CallbackStart(t, i) ==
    /\ pc[t] = "notifying"
    /\ i \in 1..Len(cur[t].coros)
    /\ cur[t].cbstate[i] = "pending"
    /\ \A j \in 1..(i - 1) : cur[t].cbstate[j] # "pending"
    /\ cur' = [cur EXCEPT ![t].cbstate[i] = "running"]
    /\ hist' = [hist EXCEPT ![t].started =
                    Append(@, [sid |-> cur[t].coros[i].sid,
                               event_id |-> cur[t].event.event_id])]
    /\ UNCHANGED auditVars
    /\ UNCHANGED apiVars
    /\ UNCHANGED hostVars
    /\ UNCHANGED fnVars
    /\ UNCHANGED <<storeVars, subscriptions, now, nextEventId, nextSubId, pc, last,
                   unsubscribed, closedSids, closeReturned>>

\* the callback returns or raises an Exception
CallbackEnd(t, i, outcome) ==
    /\ pc[t] = "notifying"
    /\ i \in 1..Len(cur[t].coros)
    /\ cur[t].cbstate[i] = "running"
    /\ LET sid == cur[t].coros[i].sid
           h == [hist[t] EXCEPT !.ended = @ \cup {sid},
                                !.failed = (@ \/ outcome = "failed")]
       IN IF SafeCallback(outcome) = "returned"
          THEN /\ cur' = [cur EXCEPT ![t].cbstate[i] = "finished"]
               /\ pc' = pc
               /\ hist' = [hist EXCEPT ![t] = h]
               /\ last' = last
          ELSE \* gather hands the first exception to the awaiting record call
               /\ cur' = [cur EXCEPT ![t] = NoCall]
               /\ pc' = [pc EXCEPT ![t] = "idle"]
               /\ Finished(t, "raised")
    /\ UNCHANGED auditVars
    /\ UNCHANGED apiVars
    /\ UNCHANGED hostVars
    /\ UNCHANGED fnVars
    /\ UNCHANGED <<storeVars, subscriptions, now, nextEventId, nextSubId,
                   unsubscribed, closedSids, closeReturned>>

\* _notify_subscribers and then record / record_raw return
RecordReturnStep(t) ==
    /\ pc[t] = "notifying"
    /\ GatherDone(cur[t].cbstate)
    /\ pc' = [pc EXCEPT ![t] = "idle"]
    /\ cur' = [cur EXCEPT ![t] = NoCall]
    /\ Finished(t, "returned")
    /\ UNCHANGED auditVars
    /\ UNCHANGED apiVars
    /\ UNCHANGED hostVars
    /\ UNCHANGED <<storeVars, subscriptions, now, nextEventId, nextSubId,
                   unsubscribed, closedSids, closeReturned>>

RecordReturnWaits(t) ==
    /\ subscriptions = <<>>
    /\ RecordReturnStep(t)
    /\ UNCHANGED fnVars

RecordReturn(t) == RecordReturnStep(t) /\ UNCHANGED fnVars

\* ---- observer.py: subscribe / unsubscribe ----

SubscribeJoinsFanout(callback) ==
    /\ nextSubId <= MaxSubscribes
    /\ subscriptions' = Append(subscriptions, [sid |-> Uuid4(nextSubId), cb |-> callback])
    /\ nextSubId' = nextSubId + 1
    /\ cur' = [t \in Tasks |->
                  IF pc[t] = "notifying"
                  THEN [cur[t] EXCEPT
                           !.coros = Append(@, [sid |-> Uuid4(nextSubId), cb |-> callback]),
                           !.cbstate = Append(@, "pending")]
                  ELSE cur[t]]
    /\ UNCHANGED auditVars
    /\ UNCHANGED apiVars
    /\ UNCHANGED hostVars
    /\ UNCHANGED fnVars
    /\ UNCHANGED <<storeVars, now, nextEventId, pc, hist, last, unsubscribed,
                   closedSids, closeReturned>>

Subscribe(callback) ==
    /\ nextSubId <= MaxSubscribes
    /\ subscriptions' = Append(subscriptions, [sid |-> Uuid4(nextSubId), cb |-> callback])
    /\ nextSubId' = nextSubId + 1
    /\ UNCHANGED auditVars
    /\ UNCHANGED apiVars
    /\ UNCHANGED hostVars
    /\ UNCHANGED fnVars
    /\ UNCHANGED <<storeVars, now, nextEventId, pc, cur, hist, last, unsubscribed,
                   closedSids, closeReturned>>

UnsubscribeKeeps(subscription_id) ==
    /\ subscriptions' = subscriptions
    /\ IF subscription_id \in Sids(subscriptions)
       THEN /\ unsubscribed' = unsubscribed \cup {subscription_id}
            /\ lastUnsub' = IF audit THEN [sid |-> subscription_id, result |-> TRUE]
                             ELSE lastUnsub
       ELSE /\ unsubscribed' = unsubscribed
            /\ lastUnsub' = IF audit THEN [sid |-> subscription_id, result |-> FALSE]
                             ELSE lastUnsub
    /\ audit' = audit
    /\ UNCHANGED apiVars
    /\ UNCHANGED hostVars
    /\ UNCHANGED fnVars
    /\ UNCHANGED <<storeVars, now, nextEventId, nextSubId, pc, cur, hist, last,
                   closedSids, closeReturned>>

Unsubscribe(subscription_id) ==
    /\ IF subscription_id \in Sids(subscriptions)
       THEN /\ subscriptions' = SelectSeq(subscriptions, LAMBDA s : s.sid # subscription_id)
            /\ unsubscribed' = unsubscribed \cup {subscription_id}
            /\ lastUnsub' = IF audit THEN [sid |-> subscription_id, result |-> TRUE]
                             ELSE lastUnsub
       ELSE /\ subscriptions' = subscriptions
            /\ unsubscribed' = unsubscribed
            /\ lastUnsub' = IF audit THEN [sid |-> subscription_id, result |-> FALSE]
                             ELSE lastUnsub
    /\ audit' = audit
    /\ UNCHANGED apiVars
    /\ UNCHANGED hostVars
    /\ UNCHANGED fnVars
    /\ UNCHANGED <<storeVars, now, nextEventId, nextSubId, pc, cur, hist, last,
                   closedSids, closeReturned>>

\* ---- observer.py: initialize / close, and the stores' ----

\* JSONEventStore.initialize: makedirs, and an empty file only if there is none
JsonInitializeTruncates(file) == [exists |-> TRUE, lines |-> <<>>]

JsonInitializeFile(file) ==
    IF file.exists THEN file ELSE [exists |-> TRUE, lines |-> <<>>]

\* SQLiteEventStore.initialize opens a new connection; it is called on a
\* store that has none (before first use, or again after close)
InitializeStore ==
    /\ \/ /\ backend = "memory"
          /\ ~initialized
          /\ initialized' = TRUE
          /\ UNCHANGED <<db, connGen, jsonFile>>
       \/ /\ backend = "sqlite"
          /\ ~db
          /\ connGen < MaxInitializes
          /\ db' = TRUE
          /\ connGen' = connGen + 1
          /\ UNCHANGED <<initialized, jsonFile>>
       \/ /\ backend = "json"
          /\ ~initialized
          /\ initialized' = TRUE
          /\ jsonFile' = JsonInitializeFile(jsonFile)
          /\ UNCHANGED <<db, connGen>>
    /\ UNCHANGED auditVars
    /\ UNCHANGED <<memStore, jsonStore, sqliteStore, sqliteFile, lastCall, instance,
                   appended>>
    /\ UNCHANGED hostVars
    /\ UNCHANGED <<backend, events, pending, sqlq, subscriptions, now, nextEventId,
                   nextSubId, pc, cur, hist, last, unsubscribed, closedSids,
                   closeReturned>>

\* Observer.initialize
Initialize == InitializeStore /\ UNCHANGED fnVars

\* self._subscriptions.clear(), then await self._store.close():
\* MemoryEventStore.close does nothing, SQLiteEventStore.close closes _db
CloseObserver(kept) ==
    /\ \A k \in 1..Len(sqlq) : sqlq[k].kind # "close"
    /\ subscriptions' = kept
    /\ closedSids' = closedSids \cup Sids(subscriptions)
    /\ IF backend = "sqlite" /\ db
       THEN /\ sqlq' = Append(sqlq, [kind |-> "close", task |-> 0, gen |-> connGen])
            /\ closeReturned' = closeReturned
       ELSE /\ sqlq' = sqlq
            /\ closeReturned' = TRUE
    /\ UNCHANGED auditVars
    /\ UNCHANGED apiVars
    /\ UNCHANGED hostVars
    /\ UNCHANGED <<backend, initialized, db, connGen, events, pending, now,
                   nextEventId, nextSubId, pc, cur, hist, last, unsubscribed>>

CloseKeepsSubscriptions == CloseObserver(subscriptions) /\ UNCHANGED fnVars

\* Observer.close
Close == CloseObserver(<<>>) /\ UNCHANGED fnVars

\* the connection closes (its open transaction is rolled back), then
\* SQLiteEventStore.close sets _db to None and Observer.close returns
SqlClose ==
    /\ sqlq # <<>>
    /\ sqlq[1].kind = "close"
    /\ sqlq' = Tail(sqlq)
    /\ IF db /\ sqlq[1].gen = connGen
       THEN db' = FALSE /\ pending' = <<>>
       ELSE UNCHANGED <<db, pending>>
    /\ closeReturned' = TRUE
    /\ UNCHANGED auditVars
    /\ UNCHANGED apiVars
    /\ UNCHANGED hostVars
    /\ UNCHANGED fnVars
    /\ UNCHANGED <<backend, initialized, connGen, events, subscriptions, now,
                   nextEventId, nextSubId, pc, cur, hist, last, unsubscribed, closedSids>>

\* ---- the EventStore API: one store of each kind, given the same calls ----

StoreKinds == {"memory", "json", "sqlite"}
StoreCorrelationIds == {"session_001", "session_002"}
StoreEventTypes == {"execution.message", "execution.tool_call"}

\* the envelopes callers hand to append; timestamp 2k is second k, 2k+1 is
\* second k and 500000 microseconds
StoredEnvelopes ==
    {[event_id |-> i,
      event_type |-> IF i % 2 = 1 THEN "execution.message" ELSE "execution.tool_call",
      timestamp |-> ts,
      source |-> DefaultSource,
      correlation_id |-> c,
      payload |-> "Hello",
      causation_id |-> None] :
         i \in 1..MaxEvents, ts \in 0..MaxStoreClock, c \in StoreCorrelationIds}

\* datetime.isoformat(): the text of the seconds, followed by the fraction
\* only when the microseconds are not zero
IsoFormatSeconds(ts) == <<ts \div 2>>

IsoFormat(ts) == IF ts % 2 = 0 THEN <<ts \div 2>> ELSE <<ts \div 2, 5>>

\* datetime.fromisoformat()
FromIsoFormat(text) == 2 * text[1] + (IF Len(text) > 1 THEN 1 ELSE 0)

\* json.dumps / json.loads of a value made of JSON types
JsonDumps(value) == <<"json", value>>

JsonLoads(text) == text[2]

\* the text of a line whose write was cut short: it ends inside the JSON
\* object and has no newline after it
JsonCut(text) == <<"cut", text[2]>>

\* json.loads raises JSONDecodeError on a text that is not a whole JSON value
JsonDecodes(text) == text[1] = "json"

\* a write at the end of the file: after a text that was cut short, which
\* has no newline, the text written joins it on the same line and is as
\* undecodable as the line it is a part of
JsonFileAppend(lines, line) ==
    IF lines # <<>> /\ ~JsonDecodes(lines[Len(lines)])
    THEN Append(lines, JsonCut(line))
    ELSE Append(lines, line)

SourceToDict(source) ==
    [origin |-> source.origin, runtime |-> source.runtime,
     agent_name |-> source.agent_name]

SourceFromDict(data) ==
    [origin |-> data.origin, runtime |-> data.runtime,
     agent_name |-> data.agent_name]

ToDict(e) ==
    [event_id |-> e.event_id,
     event_type |-> e.event_type,
     timestamp |-> IsoFormat(e.timestamp),
     source |-> SourceToDict(e.source),
     correlation_id |-> e.correlation_id,
     payload |-> e.payload,
     causation_id |-> e.causation_id]

FromDict(data) ==
    [event_id |-> data.event_id,
     event_type |-> data.event_type,
     timestamp |-> FromIsoFormat(data.timestamp),
     source |-> SourceFromDict(data.source),
     correlation_id |-> data.correlation_id,
     payload |-> data.payload,
     causation_id |-> data.causation_id]

\* the row INSERT writes; id is the AUTOINCREMENT key
ToRow(e, id) ==
    [id |-> id,
     event_id |-> e.event_id,
     event_type |-> e.event_type,
     timestamp |-> IsoFormat(e.timestamp),
     correlation_id |-> e.correlation_id,
     causation_id |-> e.causation_id,
     source |-> JsonDumps(SourceToDict(e.source)),
     payload |-> JsonDumps(e.payload)]

RowToEvent(row) ==
    [event_id |-> row.event_id,
     event_type |-> row.event_type,
     timestamp |-> FromIsoFormat(row.timestamp),
     source |-> SourceFromDict(JsonLoads(row.source)),
     correlation_id |-> row.correlation_id,
     payload |-> JsonLoads(row.payload),
     causation_id |-> row.causation_id]

\* SQLite compares TEXT byte by byte, and a proper prefix sorts first
TextLess(a, b) ==
    \/ \E k \in 1..Len(a) :
          /\ k <= Len(b)
          /\ \A j \in 1..(k - 1) : a[j] = b[j]
          /\ a[k] < b[k]
    \/ /\ Len(a) < Len(b)
       /\ \A j \in 1..Len(a) : a[j] = b[j]

\* ORDER BY timestamp: rows come in the order of the index on timestamp,
\* whose entries are ordered by (timestamp, rowid)
RowBefore(r1, r2) ==
    \/ TextLess(r1.timestamp, r2.timestamp)
    \/ r1.timestamp = r2.timestamp /\ r1.id < r2.id

RECURSIVE InsertRow(_, _)
InsertRow(sorted, r) ==
    IF sorted = <<>> THEN <<r>>
    ELSE IF RowBefore(sorted[Len(sorted)], r) THEN Append(sorted, r)
    ELSE Append(InsertRow(SubSeq(sorted, 1, Len(sorted) - 1), r), sorted[Len(sorted)])

RECURSIVE OrderByTimestamp(_)
OrderByTimestamp(rows) ==
    IF rows = <<>> THEN <<>>
    ELSE InsertRow(OrderByTimestamp(SubSeq(rows, 1, Len(rows) - 1)), rows[Len(rows)])

Raised == [ok |-> FALSE, value |-> <<>>]

Returned(value) == [ok |-> TRUE, value |-> value]

\* MemoryEventStore
MemoryQuery(correlation_id) ==
    Returned(SortedByTimestamp(
        SelectSeq(memStore.events, LAMBDA e : e.correlation_id = correlation_id)))

MemoryQueryByType(event_type) ==
    Returned(SortedByTimestamp(
        SelectSeq(memStore.events, LAMBDA e : e.event_type = event_type)))

MemoryQuerySinceStrict(timestamp) ==
    Returned(SortedByTimestamp(
        SelectSeq(memStore.events, LAMBDA e : e.timestamp > timestamp)))

MemoryQuerySince(timestamp) ==
    Returned(SortedByTimestamp(
        SelectSeq(memStore.events, LAMBDA e : e.timestamp >= timestamp)))

MemoryGetAll == Returned(SortedByTimestamp(memStore.events))

MemoryCount == Returned(Len(memStore.events))

\* JSONEventStore: a missing file reads as no events
JsonLoadAllEvents ==
    IF jsonFile.exists
    THEN [i \in 1..Len(jsonFile.lines) |-> FromDict(JsonLoads(jsonFile.lines[i]))]
    ELSE <<>>

\* _load_all_events passes every non-empty line to json.loads and catches
\* FileNotFoundError only: a line that does not decode raises out of it
JsonLoadRaises ==
    /\ jsonFile.exists
    /\ \E i \in 1..Len(jsonFile.lines) : ~JsonDecodes(jsonFile.lines[i])

JsonLoaded(result) == IF JsonLoadRaises THEN Raised ELSE result

JsonQuery(correlation_id) ==
    JsonLoaded(Returned(SortedByTimestamp(
        SelectSeq(JsonLoadAllEvents, LAMBDA e : e.correlation_id = correlation_id))))

JsonQueryByType(event_type) ==
    JsonLoaded(Returned(SortedByTimestamp(
        SelectSeq(JsonLoadAllEvents, LAMBDA e : e.event_type = event_type))))

JsonQuerySince(timestamp) ==
    JsonLoaded(Returned(SortedByTimestamp(
        SelectSeq(JsonLoadAllEvents, LAMBDA e : e.timestamp >= timestamp))))

JsonGetAll == JsonLoaded(Returned(SortedByTimestamp(JsonLoadAllEvents)))

JsonCount == JsonLoaded(Returned(Len(JsonLoadAllEvents)))

\* SQLiteEventStore: self._db.execute raises when _db is None
SqliteRowsToEvents(rows) == [i \in 1..Len(rows) |-> RowToEvent(rows[i])]

SqliteQuery(correlation_id) ==
    IF ~sqliteStore.db THEN Raised
    ELSE Returned(SqliteRowsToEvents(OrderByTimestamp(
             SelectSeq(sqliteFile.rows, LAMBDA r : r.correlation_id = correlation_id))))

SqliteQueryByType(event_type) ==
    IF ~sqliteStore.db THEN Raised
    ELSE Returned(SqliteRowsToEvents(OrderByTimestamp(
             SelectSeq(sqliteFile.rows, LAMBDA r : r.event_type = event_type))))

SqliteQuerySince(timestamp) ==
    IF ~sqliteStore.db THEN Raised
    ELSE Returned(SqliteRowsToEvents(OrderByTimestamp(
             SelectSeq(sqliteFile.rows,
                       LAMBDA r : ~TextLess(r.timestamp, IsoFormat(timestamp))))))

SqliteGetAll ==
    IF ~sqliteStore.db THEN Raised
    ELSE Returned(SqliteRowsToEvents(OrderByTimestamp(sqliteFile.rows)))

SqliteCount ==
    IF ~sqliteStore.db THEN Raised ELSE Returned(Len(sqliteFile.rows))

StoreQuery(kind, correlation_id) ==
    CASE kind = "memory" -> MemoryQuery(correlation_id)
      [] kind = "json" -> JsonQuery(correlation_id)
      [] kind = "sqlite" -> SqliteQuery(correlation_id)

StoreQueryByType(kind, event_type) ==
    CASE kind = "memory" -> MemoryQueryByType(event_type)
      [] kind = "json" -> JsonQueryByType(event_type)
      [] kind = "sqlite" -> SqliteQueryByType(event_type)

StoreQuerySince(kind, timestamp) ==
    CASE kind = "memory" -> MemoryQuerySince(timestamp)
      [] kind = "json" -> JsonQuerySince(timestamp)
      [] kind = "sqlite" -> SqliteQuerySince(timestamp)

StoreGetAll(kind) ==
    CASE kind = "memory" -> MemoryGetAll
      [] kind = "json" -> JsonGetAll
      [] kind = "sqlite" -> SqliteGetAll

StoreCount(kind) ==
    CASE kind = "memory" -> MemoryCount
      [] kind = "json" -> JsonCount
      [] kind = "sqlite" -> SqliteCount

\* what each store holds, in the order it was appended
Contents(kind) ==
    CASE kind = "memory" -> memStore.events
      [] kind = "json" -> JsonLoadAllEvents
      [] kind = "sqlite" -> SqliteRowsToEvents(sqliteFile.rows)

\* the UNIQUE constraint on event_id
SqliteUnique(rows, e) == \A i \in 1..Len(rows) : rows[i].event_id # e.event_id

AllOk == [k \in StoreKinds |-> "ok"]

\* the arguments a query can take, and no query
NoQueryArg == [correlation_id |-> None, event_type |-> None, since |-> -1]

\* what a query gave the caller: the list of a query, the number of count
QueryResult(r) == [ok |-> r.ok, value |-> r.value, count |-> -1]

CountResult(r) == [ok |-> r.ok, value |-> <<>>, count |-> IF r.ok THEN r.value ELSE -1]

NoStoreCall ==
    [op |-> "none", out |-> AllOk, arg |-> NoQueryArg,
     result |-> [k \in StoreKinds |-> QueryResult(Raised)]]

StoreInitialize ==
    /\ memStore' = [memStore EXCEPT !.initialized = TRUE]
    /\ jsonStore' = [jsonStore EXCEPT !.initialized = TRUE]
    /\ jsonFile' = JsonInitializeFile(jsonFile)
    /\ sqliteStore' = [sqliteStore EXCEPT !.db = TRUE]
    /\ sqliteFile' = [sqliteFile EXCEPT !.exists = TRUE]
    /\ lastCall' = [NoStoreCall EXCEPT !.op = "initialize"]
    /\ instance' = [instance EXCEPT !.initialized = TRUE]
    /\ UNCHANGED appended
    /\ UNCHANGED observerVars
    /\ UNCHANGED fnVars

StoreAppend(event) ==
    /\ Len(memStore.events) < MaxStored
    /\ Len(jsonFile.lines) < MaxStored
    /\ Len(sqliteFile.rows) < MaxStored
    /\ LET jsonOk == jsonFile.exists
           sqliteOk == sqliteStore.db /\ SqliteUnique(sqliteFile.rows, event)
       IN /\ memStore' = [memStore EXCEPT !.events = MemoryAppend(@, event)]
          /\ jsonFile' = IF jsonOk
                         THEN [jsonFile EXCEPT
                                  !.lines = JsonFileAppend(@, JsonDumps(ToDict(event)))]
                         ELSE jsonFile
          /\ sqliteFile' = IF sqliteOk
                           THEN [sqliteFile EXCEPT
                                    !.rows = Append(@, ToRow(event, Len(@) + 1))]
                           ELSE sqliteFile
          /\ lastCall' = [NoStoreCall EXCEPT
                            !.op = "append",
                            !.out = [k \in StoreKinds |->
                                       CASE k = "memory" -> "ok"
                                         [] k = "json" -> IF jsonOk THEN "ok" ELSE "raised"
                                         [] k = "sqlite" -> IF sqliteOk THEN "ok" ELSE "raised"]]
          /\ appended' = [json |-> IF jsonOk THEN Append(appended.json, event)
                                   ELSE appended.json,
                          sqlite |-> IF sqliteOk THEN Append(appended.sqlite, event)
                                     ELSE appended.sqlite]
    /\ UNCHANGED <<jsonStore, sqliteStore, instance>>
    /\ UNCHANGED observerVars
    /\ UNCHANGED fnVars

StoreClose ==
    /\ sqliteStore' = [sqliteStore EXCEPT !.db = FALSE]
    /\ lastCall' = [NoStoreCall EXCEPT !.op = "close"]
    /\ instance' = [instance EXCEPT !.closed = TRUE]
    /\ UNCHANGED <<memStore, jsonStore, jsonFile, sqliteFile, appended>>
    /\ UNCHANGED observerVars
    /\ UNCHANGED fnVars

\* MemoryEventStore.clear; the other stores have no such method
StoreClear ==
    /\ memStore' = [memStore EXCEPT !.events = <<>>]
    /\ lastCall' = [NoStoreCall EXCEPT
                      !.op = "clear",
                      !.out = [k \in StoreKinds |-> IF k = "memory" THEN "ok" ELSE "raised"]]
    /\ instance' = [instance EXCEPT !.cleared = TRUE]
    /\ UNCHANGED <<jsonStore, jsonFile, sqliteStore, sqliteFile, appended>>
    /\ UNCHANGED observerVars
    /\ UNCHANGED fnVars

\* sorted(list, key=...) returns a new list and leaves the list it is given
\* as it is
SortedArgumentSortedInPlace(list) == SortedByTimestamp(list)

SortedArgument(list) == list

\* what a query call does to the stores: the in-memory store hands its list
\* to sorted(), the JSON store reads the file, the SQLite store runs a SELECT
QueryCall(op, arg, result) ==
    /\ memStore' = [memStore EXCEPT !.events = SortedArgument(@)]
    /\ lastCall' = [op |-> op,
                    out |-> [k \in StoreKinds |-> IF result[k].ok THEN "ok" ELSE "raised"],
                    arg |-> arg,
                    result |-> result]
    /\ UNCHANGED <<jsonStore, jsonFile, sqliteStore, sqliteFile, instance, appended>>
    /\ UNCHANGED observerVars
    /\ UNCHANGED fnVars

StoreQueryCall(correlation_id) ==
    QueryCall("query", [NoQueryArg EXCEPT !.correlation_id = correlation_id],
              [k \in StoreKinds |-> QueryResult(StoreQuery(k, correlation_id))])

StoreQueryByTypeCall(event_type) ==
    QueryCall("query_by_type", [NoQueryArg EXCEPT !.event_type = event_type],
              [k \in StoreKinds |-> QueryResult(StoreQueryByType(k, event_type))])

StoreQuerySinceCall(timestamp) ==
    QueryCall("query_since", [NoQueryArg EXCEPT !.since = timestamp],
              [k \in StoreKinds |-> QueryResult(StoreQuerySince(k, timestamp))])

StoreGetAllCall ==
    QueryCall("get_all", NoQueryArg,
              [k \in StoreKinds |-> QueryResult(StoreGetAll(k))])

StoreCountCall ==
    QueryCall("count", NoQueryArg,
              [k \in StoreKinds |-> CountResult(StoreCount(k))])

\* the process ends and new store instances are constructed over the same
\* directory and database file
StoreReopen ==
    /\ memStore' = [events |-> <<>>, initialized |-> FALSE]
    /\ jsonStore' = [initialized |-> FALSE]
    /\ sqliteStore' = [db |-> FALSE]
    /\ lastCall' = [NoStoreCall EXCEPT !.op = "reopen"]
    /\ instance' = [initialized |-> FALSE, closed |-> FALSE, fresh |-> TRUE,
                    cleared |-> FALSE, inherited |-> Len(sqliteFile.rows)]
    /\ UNCHANGED <<jsonFile, sqliteFile, appended>>
    /\ UNCHANGED observerVars
    /\ UNCHANGED fnVars

\* the process is killed while append writes the line of the event: a part
\* of the line is in the file, and new store instances are constructed over
\* the same directory and database file
StoreKilledInAppend(event) ==
    /\ jsonFile.exists
    /\ Len(jsonFile.lines) < MaxStored
    /\ jsonFile' = [jsonFile EXCEPT
                       !.lines = JsonFileAppend(@, JsonCut(JsonDumps(ToDict(event))))]
    /\ memStore' = [events |-> <<>>, initialized |-> FALSE]
    /\ jsonStore' = [initialized |-> FALSE]
    /\ sqliteStore' = [db |-> FALSE]
    /\ lastCall' = [NoStoreCall EXCEPT !.op = "killed"]
    /\ instance' = [initialized |-> FALSE, closed |-> FALSE, fresh |-> TRUE,
                    cleared |-> FALSE, inherited |-> Len(sqliteFile.rows)]
    /\ UNCHANGED <<sqliteFile, appended>>
    /\ UNCHANGED observerVars
    /\ UNCHANGED fnVars

\* ---- storage/json_store.py: append, run by the executor threads ----

JsonFlushOverwrites(lines, line) == <<line>>

\* the write of a handle opened in mode "a": the line goes to the end of
\* the file as it is at that moment
JsonFlush(lines, line) == JsonFileAppend(lines, line)

\* aiofiles.open(self._events_file, "a"): creates the file in a directory
\* that exists, raises FileNotFoundError when there is no directory
JsonOpen(t) ==
    /\ backend = "json"
    /\ pc[t] = "append_open"
    /\ IF jsonFile.exists
       THEN /\ pc' = [pc EXCEPT ![t] = "append_write"]
            /\ UNCHANGED <<cur, hist, last>>
       ELSE /\ pc' = [pc EXCEPT ![t] = "idle"]
            /\ cur' = [cur EXCEPT ![t] = NoCall]
            /\ Finished(t, "raised")
    /\ UNCHANGED auditVars
    /\ UNCHANGED apiVars
    /\ UNCHANGED hostVars
    /\ UNCHANGED fnVars
    /\ UNCHANGED <<backend, initialized, db, connGen, events, pending, sqlq,
                   subscriptions, now, nextEventId, nextSubId, unsubscribed,
                   closedSids, closeReturned>>

\* await f.write(json.dumps(event.to_dict()) + "\n"): the line is in the
\* buffer of the call's own handle
JsonWrite(t) ==
    /\ backend = "json"
    /\ pc[t] = "append_write"
    /\ pc' = [pc EXCEPT ![t] = "append_exit"]
    /\ UNCHANGED auditVars
    /\ UNCHANGED apiVars
    /\ UNCHANGED hostVars
    /\ UNCHANGED fnVars
    /\ UNCHANGED <<backend, initialized, db, connGen, events, pending, sqlq,
                   subscriptions, now, nextEventId, nextSubId, cur, hist, last,
                   unsubscribed, closedSids, closeReturned>>

\* leaving the async with closes the handle, which writes the buffered line
\* to the file; append returns and the caller takes the registry
JsonExit(t) ==
    /\ backend = "json"
    /\ pc[t] = "append_exit"
    /\ jsonFile' = [jsonFile EXCEPT
                       !.lines = JsonFlush(@, JsonDumps(ToDict(cur[t].event)))]
    /\ pc' = [pc EXCEPT ![t] = NotifyPc]
    /\ cur' = [cur EXCEPT ![t] = NotifyCur(cur[t].event)]
    /\ AfterAppend(t)
    /\ UNCHANGED auditVars
    /\ UNCHANGED <<memStore, jsonStore, sqliteStore, sqliteFile, lastCall, instance,
                   appended>>
    /\ UNCHANGED hostVars
    /\ UNCHANGED fnVars
    /\ UNCHANGED <<backend, initialized, db, connGen, events, pending, sqlq,
                   subscriptions, now, nextEventId, nextSubId, unsubscribed,
                   closedSids, closeReturned>>

\* ---- events/envelope.py: to_dict / from_dict on any envelope ----

EventTypeValues ==
    {"execution.message", "execution.tool_call", "execution.tool_result",
     "execution.state_change", "execution.handoff", "execution.completed",
     "system.workflow_started", "system.workflow_completed",
     "system.task_scheduled", "system.task_completed", "system.error",
     "ui.input_received", "ui.output_displayed",
     "integration.call", "integration.response"}

EventOriginValues == {"agent", "system", "ui", "integration"}

RuntimeTypeValues == {"ag2", "langgraph", "crewai", "custom", "none"}

AgentNames == {None, "TestAgent"}

\* every envelope: any event type, source and causation_id, timestamps with
\* and without microseconds
AnyEnvelopes ==
    [event_id : 1..MaxEvents,
     event_type : EventTypeValues,
     timestamp : 0..MaxStoreClock,
     source : [origin : EventOriginValues, runtime : RuntimeTypeValues,
               agent_name : AgentNames],
     correlation_id : CorrelationIds,
     payload : Payloads,
     causation_id : {None, "parent_event_id"}]

\* no dictionary and no envelope yet
NoRoundTrip == [dict |-> ToDict(NoEvent), restored |-> NoEvent]

\* data = event.to_dict(), for the envelope at hand
ToDictCall ==
    /\ fnCall.fn = "envelope"
    /\ fnCall' = [fnCall EXCEPT !.fn = "to_dict", !.out.dict = ToDict(fnCall.arg)]
    /\ UNCHANGED observerVars
    /\ UNCHANGED apiVars

\* EventEnvelope.from_dict(data), for the dictionary to_dict returned
FromDictCall ==
    /\ fnCall.fn = "to_dict"
    /\ fnCall' = [fnCall EXCEPT !.fn = "from_dict",
                                !.out.restored = FromDict(fnCall.out.dict)]
    /\ UNCHANGED observerVars
    /\ UNCHANGED apiVars

\* ---- projections/snapshot.py ----

ProjectedTypes ==
    {"execution.message", "execution.tool_call", "execution.tool_result",
     "execution.state_change", "execution.handoff", "execution.completed",
     "system.workflow_started", "system.workflow_completed", "system.error"}

MessageKinds ==
    {"execution.message", "execution.tool_call", "execution.tool_result"}

CompletionKinds == {"execution.completed", "system.workflow_completed"}

\* the payload dictionaries of the events projected, by the keys the
\* projections read; a key that is absent reads None
ProjectedPayloads(event_type) ==
    CASE event_type = "execution.message" ->
             {[content |-> c, reason |-> None] : c \in {"Hello", "", None}}
      [] event_type \in CompletionKinds ->
             {[content |-> None, reason |-> r] : r \in {None, "done", "max_rounds"}}
      [] OTHER -> {[content |-> None, reason |-> None]}

ProjectedAgents(event_type) ==
    IF event_type = "execution.message" THEN AgentNames ELSE {None}

\* the envelopes that can stand at place i of the sequence projected
ProjectedEnvelopes(i) ==
    UNION {
        {[event_id |-> i,
          event_type |-> et,
          timestamp |-> ts,
          source |-> [DefaultSource EXCEPT !.agent_name = a],
          correlation_id |-> "session_001",
          payload |-> p,
          causation_id |-> None] :
             ts \in 0..MaxStoreClock, a \in ProjectedAgents(et),
             p \in ProjectedPayloads(et)} : et \in ProjectedTypes}

RECURSIVE EventSequences(_)
EventSequences(n) ==
    IF n = 0 THEN {<<>>}
    ELSE {Append(evs, e) : evs \in EventSequences(n - 1), e \in ProjectedEnvelopes(n)}

ProjectedSequences == UNION {EventSequences(n) : n \in 0..MaxProjected}

\* _extract_agents: the names of source.agent_name that are set
ExtractAgents(evs) ==
    {evs[i].source.agent_name : i \in 1..Len(evs)} \ {None}

\* one entry of messages: the payload, the three tags, and the name of the
\* source's agent when the payload has none
ToMessage(event) ==
    [content |-> event.payload.content,
     reason |-> event.payload.reason,
     tag_event_id |-> event.event_id,
     tag_event_type |-> event.event_type,
     tag_timestamp |-> IsoFormat(event.timestamp),
     name |-> event.source.agent_name]

EventsToMessagesOnlyMessages(evs) ==
    LET kept == SelectSeq(evs, LAMBDA e : e.event_type = "execution.message")
    IN [i \in 1..Len(kept) |-> ToMessage(kept[i])]

\* _events_to_messages
EventsToMessages(evs) ==
    LET kept == SelectSeq(evs, LAMBDA e : e.event_type \in MessageKinds)
    IN [i \in 1..Len(kept) |-> ToMessage(kept[i])]

\* _extract_agent_states: a state {"name": agent_name} for every agent named
\* as a source; the payloads projected carry no system_message or llm_config
ExtractAgentStates(evs) ==
    {[name |-> evs[i].source.agent_name] :
        i \in {j \in 1..Len(evs) : evs[j].source.agent_name # None}}

\* _extract_context_variables: the payloads projected carry no
\* context_variables
ExtractContextVariables(evs) == {}

RECURSIVE ExtractTerminationFirst(_)
ExtractTerminationFirst(evs) ==
    IF evs = <<>> THEN [reason |-> None, is_terminated |-> FALSE]
    ELSE IF Head(evs).event_type \in CompletionKinds
         THEN [reason |-> Head(evs).payload.reason, is_terminated |-> TRUE]
         ELSE ExtractTerminationFirst(Tail(evs))

\* _extract_termination: the scan of reversed(events)
RECURSIVE ExtractTermination(_)
ExtractTermination(evs) ==
    IF evs = <<>> THEN [reason |-> None, is_terminated |-> FALSE]
    ELSE IF evs[Len(evs)].event_type \in CompletionKinds
         THEN [reason |-> evs[Len(evs)].payload.reason, is_terminated |-> TRUE]
         ELSE ExtractTermination(SubSeq(evs, 1, Len(evs) - 1))

\* _extract_last_speaker
RECURSIVE ExtractLastSpeaker(_)
ExtractLastSpeaker(evs) ==
    IF evs = <<>> THEN None
    ELSE IF evs[Len(evs)].event_type = "execution.message"
         THEN evs[Len(evs)].source.agent_name
         ELSE ExtractLastSpeaker(SubSeq(evs, 1, Len(evs) - 1))

\* _count_rounds
CountRounds(evs) ==
    Len(SelectSeq(evs, LAMBDA e : e.event_type = "execution.message"))

NoSnapshot ==
    [chat_id |-> None, chat_type |-> None, timestamp |-> -1, messages |-> <<>>,
     metadata |-> [event_count |-> 0, first_event |-> -1, last_event |-> -1,
                   start_time |-> <<>>, end_time |-> <<>>],
     agent_states |-> {}, context_variables |-> {}, last_speaker |-> None,
     round_count |-> 0, termination_reason |-> None, is_terminated |-> FALSE]

Projected(snapshot) == [raised |-> FALSE, error |-> None, snapshot |-> snapshot]

SnapshotProjectUnchecked(evs) ==
    IF evs = <<>> THEN Projected(NoSnapshot)
    ELSE Projected([NoSnapshot EXCEPT !.chat_id = evs[1].correlation_id])

\* SnapshotProjection.project
SnapshotProject(evs) ==
    IF evs = <<>>
    THEN [raised |-> TRUE, error |-> "ValueError", snapshot |-> NoSnapshot]
    ELSE LET termination == ExtractTermination(evs)
         IN Projected(
              [chat_id |-> evs[1].correlation_id,
               chat_type |-> IF Cardinality(ExtractAgents(evs)) > 2
                             THEN "group" ELSE "direct",
               timestamp |-> evs[Len(evs)].timestamp,
               messages |-> EventsToMessages(evs),
               metadata |-> [event_count |-> Len(evs),
                             first_event |-> evs[1].event_id,
                             last_event |-> evs[Len(evs)].event_id,
                             start_time |-> IsoFormat(evs[1].timestamp),
                             end_time |-> IsoFormat(evs[Len(evs)].timestamp)],
               agent_states |-> ExtractAgentStates(evs),
               context_variables |-> ExtractContextVariables(evs),
               last_speaker |-> ExtractLastSpeaker(evs),
               round_count |-> CountRounds(evs),
               termination_reason |-> termination.reason,
               is_terminated |-> termination.is_terminated])

\* ---- projections/transcript.py ----

\* a text is the sequence of its pieces; the empty string has none
EmptyString == <<>>

\* "\n".join(lines)
RECURSIVE Join(_)
Join(lines) ==
    IF lines = <<>> THEN EmptyString
    ELSE IF Len(lines) = 1 THEN lines[1]
    ELSE Join(SubSeq(lines, 1, Len(lines) - 1)) \o <<"\n">> \o lines[Len(lines)]

\* datetime.isoformat() as text
IsoText(ts) ==
    IF Len(IsoFormat(ts)) = 1 THEN ToString(IsoFormat(ts)[1])
    ELSE ToString(IsoFormat(ts)[1]) \o ".500000"

\* strftime("%H:%M:%S"): the time to the second
Strftime(ts) == ToString(ts \div 2)

TranscriptConfigs ==
    [include_timestamps : BOOLEAN, include_tool_calls : BOOLEAN,
     include_metadata : BOOLEAN]

DefaultTranscript ==
    [include_timestamps |-> TRUE, include_tool_calls |-> TRUE,
     include_metadata |-> FALSE]

PayloadGetKeepsNone(value, default) == value

\* payload.get(key, default) for a key the payload does not carry
PayloadGet(value, default) == IF value = None THEN default ELSE value

\* TranscriptProjection._format_event: the line of the event, or no line
TranscriptFormatEvent(cfg, event) ==
    LET timestamp_str == IF cfg.include_timestamps
                         THEN <<"[", Strftime(event.timestamp), "] ">>
                         ELSE <<>>
        agent == IF event.source.agent_name \in {None, ""}
                 THEN "System" ELSE event.source.agent_name
        reason == IF event.payload.reason = None THEN <<>> ELSE <<event.payload.reason>>
    IN CASE event.event_type = "execution.message" ->
                IF PayloadGet(event.payload.content, "") = "" THEN <<>>
                ELSE timestamp_str \o <<agent, ": ", event.payload.content>>
         [] event.event_type = "execution.tool_call" /\ cfg.include_tool_calls ->
                timestamp_str \o <<agent, " -> [TOOL: ", "unknown", "] ", "{}">>
         [] event.event_type = "execution.tool_result" /\ cfg.include_tool_calls ->
                timestamp_str \o <<"[TOOL RESULT: ", "unknown", "] ">>
         [] event.event_type = "execution.handoff" ->
                timestamp_str \o <<"[HANDOFF] ", "?", " -> ", "?">>
         [] event.event_type = "system.workflow_started" ->
                timestamp_str \o <<"[WORKFLOW STARTED]">>
         [] event.event_type = "system.workflow_completed" ->
                timestamp_str \o <<"[WORKFLOW COMPLETED] ">> \o reason
         [] event.event_type = "execution.completed" ->
                timestamp_str \o <<"[EXECUTION COMPLETED] ">> \o reason
         [] OTHER ->
                IF cfg.include_metadata
                THEN timestamp_str \o <<"[", event.event_type, "] ", ToString(event.payload)>>
                ELSE <<>>

\* the loop over the events: the line of every event that has one, and after
\* it what the projection puts after a line
RECURSIVE LinesKept(_, _)
LinesKept(lines, after) ==
    IF lines = <<>> THEN <<>>
    ELSE (IF Head(lines) = <<>> THEN <<>> ELSE <<Head(lines)>> \o after)
         \o LinesKept(Tail(lines), after)

\* TranscriptProjection.project
TranscriptProject(cfg, evs) ==
    IF evs = <<>> THEN EmptyString
    ELSE Join(<<<<"=== Transcript: ", evs[1].correlation_id, " ===">>,
                <<"Events: ", ToString(Len(evs))>>,
                <<"Start: ", IsoText(evs[1].timestamp)>>,
                <<"End: ", IsoText(evs[Len(evs)].timestamp)>>,
                <<>>>>
              \o LinesKept([i \in 1..Len(evs) |-> TranscriptFormatEvent(cfg, evs[i])],
                           <<>>)
              \o <<<<>>, <<"=== End Transcript ===">>>>)

\* MarkdownTranscriptProjection._format_event; the backquotes of the Markdown
\* text are written as quotes
MarkdownFormatEvent(event) ==
    LET agent == IF event.source.agent_name \in {None, ""}
                 THEN "System" ELSE event.source.agent_name
        timestamp == Strftime(event.timestamp)
    IN CASE event.event_type = "execution.message" ->
                IF PayloadGet(event.payload.content, "") = "" THEN <<>>
                ELSE <<"**", agent, "** (", timestamp, "):\n> ", event.payload.content>>
         [] event.event_type = "execution.tool_call" ->
                <<"**", agent, "** (", timestamp, ") called '", "unknown",
                  "':\n'''json\n", "{}", "\n'''">>
         [] event.event_type = "execution.tool_result" ->
                <<"**Tool Result** ('", "unknown", "'):\n'''\n", "\n'''">>
         [] event.event_type = "execution.handoff" ->
                <<"*Handoff: ", "?", " -> ", "?", "*">>
         [] OTHER -> <<>>

\* MarkdownTranscriptProjection.project
MarkdownProject(evs) ==
    IF evs = <<>> THEN EmptyString
    ELSE Join(<<<<"# Transcript: ", evs[1].correlation_id>>,
                <<>>,
                <<"**Events:** ", ToString(Len(evs))>>,
                <<"**Start:** ", IsoText(evs[1].timestamp)>>,
                <<"**End:** ", IsoText(evs[Len(evs)].timestamp)>>,
                <<>>,
                <<"---">>,
                <<>>>>
              \o LinesKept([i \in 1..Len(evs) |-> MarkdownFormatEvent(evs[i])],
                           <<<<>>>>))

\* ---- observer.py: the Observer as an asynchronous context manager ----

NoScope == [fn |-> "async with", at |-> "outside", error |-> FALSE, closeCalled |-> FALSE]

\* __aenter__: await self.initialize(), return self
AEnter ==
    /\ fnCall.at = "outside"
    /\ InitializeStore
    /\ fnCall' = [fnCall EXCEPT !.at = "inside"]

WithCallsAExitOnReturnOnly(error) == ~error

\* the async with statement awaits __aexit__ when the block is left, by
\* running off its end and by an exception alike
WithCallsAExit(error) == TRUE

\* the block is left between two of its calls; __aexit__: await self.close()
AExit(error) ==
    /\ fnCall.at = "inside"
    /\ \A t \in Tasks : pc[t] = "idle"
    /\ IF WithCallsAExit(error)
       THEN /\ CloseObserver(<<>>)
            /\ fnCall' = [fnCall EXCEPT !.at = "left", !.error = error,
                                        !.closeCalled = TRUE]
       ELSE /\ fnCall' = [fnCall EXCEPT !.at = "left", !.error = error]
            /\ UNCHANGED observerVars
            /\ UNCHANGED apiVars

\* a call the block makes on the Observer
InBlock(call) == fnCall.at = "inside" /\ call

\* ---- the projections called on a sequence of events ----

NoProjection ==
    [raised |-> FALSE, error |-> None, snapshot |-> NoSnapshot, text |-> <<"no text">>]

ReversedArgumentInPlace(list) == [i \in 1..Len(list) |-> list[Len(list) + 1 - i]]

\* reversed(events) gives an iterator over the list from its end and leaves
\* the list as it is
ReversedArgument(list) == list

\* a projection is called on the events, and once more in the same way on
\* the list as the first call left it
ProjectionCall(fn, cfg, out, after) ==
    /\ \/ fnCall.fn = "events"
       \/ fnCall.calls = 1 /\ fnCall.fn = fn /\ fnCall.cfg = cfg
    /\ fnCall' = [fnCall EXCEPT !.fn = fn, !.cfg = cfg, !.out = out,
                                !.arg = after, !.calls = @ + 1]
    /\ UNCHANGED observerVars
    /\ UNCHANGED apiVars

\* SnapshotProjection().project(events)
SnapshotProjectCall ==
    LET r == SnapshotProject(fnCall.arg)
    IN ProjectionCall("snapshot", DefaultTranscript,
                      [NoProjection EXCEPT !.raised = r.raised, !.error = r.error,
                                           !.snapshot = r.snapshot],
                      ReversedArgument(fnCall.arg))

\* TranscriptProjection(...).project(events)
TranscriptProjectCall(cfg) ==
    ProjectionCall("transcript", cfg,
                   [NoProjection EXCEPT !.text = TranscriptProject(cfg, fnCall.arg)],
                   fnCall.arg)

\* MarkdownTranscriptProjection().project(events)
MarkdownProjectCall ==
    ProjectionCall("markdown", DefaultTranscript,
                   [NoProjection EXCEPT !.text = MarkdownProject(fnCall.arg)],
                   fnCall.arg)

\* ---- the specification ----

NoUnsub == [sid |-> -1, result |-> FALSE]

NoFnCall == [fn |-> "none", arg |-> None, out |-> None]

InitState ==
    /\ initialized = FALSE
    /\ db = FALSE
    /\ connGen = 0
    /\ events = <<>>
    /\ pending = <<>>
    /\ sqlq = <<>>
    /\ subscriptions = <<>>
    /\ now = 0
    /\ nextEventId = 1
    /\ nextSubId = 1
    /\ pc = [t \in Tasks |-> "idle"]
    /\ cur = [t \in Tasks |-> NoCall]
    /\ hist = [t \in Tasks |-> NoHist]
    /\ last = "none"
    /\ unsubscribed = {}
    /\ closedSids = {}
    /\ closeReturned = FALSE
    /\ lastUnsub = NoUnsub
    /\ memStore = [events |-> <<>>, initialized |-> FALSE]
    /\ jsonStore = [initialized |-> FALSE]
    /\ jsonFile = [exists |-> FALSE, lines |-> <<>>]
    /\ sqliteStore = [db |-> FALSE]
    /\ sqliteFile = [exists |-> FALSE, rows |-> <<>>]
    /\ lastCall = NoStoreCall
    /\ instance = [initialized |-> FALSE, closed |-> FALSE, fresh |-> FALSE,
                   cleared |-> FALSE, inherited |-> 0]
    /\ appended = [json |-> <<>>, sqlite |-> <<>>]

InitCommon ==
    /\ InitState
    /\ fnCall = NoFnCall

\* an Observer constructed over either store
Init ==
    /\ backend \in Backends
    /\ audit = FALSE
    /\ clockMax = MaxClock
    /\ InitCommon

\* an Observer over a MemoryEventStore, with its unsubscribe calls logged
InitRegistry ==
    /\ backend = "memory"
    /\ audit = TRUE
    /\ clockMax = MaxClock
    /\ InitCommon

\* the operations of the Observer and of the tasks it starts
NextObserver ==
    \/ \E t \in Tasks, et \in EventTypes, c \in CorrelationIds, p \in Payloads :
          Record(t, et, c, p)
    \/ \E t \in Tasks, e \in Envelopes : RecordRaw(t, e)
    \/ \E t \in Tasks, i \in 1..MaxSubscribes : CallbackStart(t, i)
    \/ \E t \in Tasks, i \in 1..MaxSubscribes, o \in {"done", "failed"} : CallbackEnd(t, i, o)
    \/ \E t \in Tasks : RecordReturn(t)
    \/ \E cb \in Callbacks : Subscribe(cb)
    \/ \E sid \in 0..MaxSubscribes : Unsubscribe(sid)
    \/ Initialize
    \/ Close

\* the steps of the aiosqlite worker thread
NextSqlite ==
    \/ \E t \in Tasks : SqlInsert(t)
    \/ \E t \in Tasks : SqlCommit(t)
    \/ SqlClose

Next == NextObserver \/ NextSqlite

Spec == Init /\ [][Next]_vars

SpecRegistry == InitRegistry /\ [][NextObserver]_vars

\* an Observer over a SQLiteEventStore, whose append suspends the record
\* call, with the registry at each call logged
InitSuspended ==
    /\ backend = "sqlite"
    /\ audit = TRUE
    /\ clockMax = MaxClock
    /\ InitCommon

NextSuspended ==
    \/ \E t \in Tasks, et \in EventTypes, c \in CorrelationIds, p \in Payloads :
          Record(t, et, c, p)
    \/ \E t \in Tasks, i \in 1..MaxSubscribes : CallbackStart(t, i)
    \/ \E t \in Tasks, i \in 1..MaxSubscribes, o \in {"done", "failed"} : CallbackEnd(t, i, o)
    \/ \E t \in Tasks : RecordReturn(t)
    \/ \E cb \in Callbacks : Subscribe(cb)
    \/ \E sid \in 1..MaxSubscribes : Unsubscribe(sid)
    \/ Initialize
    \/ \E t \in Tasks : SqlInsert(t)
    \/ \E t \in Tasks : SqlCommit(t)

SpecSuspended == InitSuspended /\ [][NextSuspended]_vars

\* one store of each kind, driven by one caller through the EventStore API
InitStores ==
    /\ backend = "memory"
    /\ audit = FALSE
    /\ clockMax = MaxClock
    /\ InitCommon

NextStores ==
    \/ StoreInitialize
    \/ \E e \in StoredEnvelopes : StoreAppend(e)
    \/ StoreClose
    \/ StoreClear
    \/ StoreReopen

SpecStores == InitStores /\ [][NextStores]_vars

\* the three stores, given the same appends and queries by one caller
NextQueries ==
    \/ StoreInitialize
    \/ \E e \in StoredEnvelopes : StoreAppend(e)
    \/ \E c \in StoreCorrelationIds : StoreQueryCall(c)
    \/ \E et \in StoreEventTypes : StoreQueryByTypeCall(et)
    \/ \E ts \in 0..MaxStoreClock : StoreQuerySinceCall(ts)
    \/ StoreGetAllCall
    \/ StoreCountCall

SpecQueries == InitStores /\ [][NextQueries]_vars

\* the stores of a process that can be killed in the middle of an append
NextKilled ==
    \/ StoreInitialize
    \/ \E e \in StoredEnvelopes : StoreAppend(e)
    \/ \E e \in StoredEnvelopes : StoreKilledInAppend(e)
    \/ \E c \in StoreCorrelationIds : StoreQueryCall(c)
    \/ StoreGetAllCall

SpecKilled == InitStores /\ [][NextKilled]_vars

\* producers calling record / record_raw concurrently on an Observer over a
\* store of any kind, with subscribers
InitProducers ==
    /\ backend \in StoreKinds
    /\ audit = FALSE
    /\ clockMax = MaxClock
    /\ InitCommon

\* the steps of the executor threads that serve aiofiles
NextJson ==
    \/ \E t \in Tasks : JsonOpen(t)
    \/ \E t \in Tasks : JsonWrite(t)
    \/ \E t \in Tasks : JsonExit(t)

NextProducers ==
    \/ \E t \in Tasks, et \in EventTypes, c \in CorrelationIds, p \in Payloads :
          Record(t, et, c, p)
    \/ \E t \in Tasks, e \in Envelopes : RecordRaw(t, e)
    \/ \E t \in Tasks, i \in 1..MaxSubscribes : CallbackStart(t, i)
    \/ \E t \in Tasks, i \in 1..MaxSubscribes, o \in {"done", "failed"} : CallbackEnd(t, i, o)
    \/ \E t \in Tasks : RecordReturn(t)
    \/ \E cb \in Callbacks : Subscribe(cb)
    \/ Initialize
    \/ \E t \in Tasks : SqlInsert(t)
    \/ \E t \in Tasks : SqlCommit(t)
    \/ NextJson

SpecProducers == InitProducers /\ [][NextProducers]_vars

\* what a caller can pass to record as correlation_id: an id, the empty
\* string, or None
RecordCorrelationIds == CorrelationIds \cup {"", None}

\* one caller that issues its record calls one after another, with any
\* correlation_id, on a host whose clock can be set back
InitCaller ==
    /\ backend \in StoreKinds
    /\ audit = FALSE
    /\ clockMax = MaxCallerClock
    /\ InitCommon

NextCaller ==
    \/ \E et \in EventTypes, c \in RecordCorrelationIds, p \in Payloads :
          Record(1, et, c, p)
    \/ Initialize
    \/ SqlInsert(1)
    \/ SqlCommit(1)
    \/ JsonOpen(1)
    \/ JsonWrite(1)
    \/ JsonExit(1)

SpecCaller == InitCaller /\ [][NextCaller]_vars

\* an envelope, serialized and deserialized
InitRoundTrip ==
    /\ backend = "memory"
    /\ audit = FALSE
    /\ clockMax = MaxClock
    /\ InitState
    /\ \E e \in AnyEnvelopes : fnCall = [fn |-> "envelope", arg |-> e, out |-> NoRoundTrip]

NextRoundTrip ==
    \/ ToDictCall
    \/ FromDictCall

SpecRoundTrip == InitRoundTrip /\ [][NextRoundTrip]_vars

\* the projections, called on any sequence of events
InitProjections ==
    /\ backend = "memory"
    /\ audit = FALSE
    /\ clockMax = MaxClock
    /\ InitState
    /\ \E evs \in ProjectedSequences :
          fnCall = [fn |-> "events", arg |-> evs, cfg |-> DefaultTranscript,
                    out |-> NoProjection, calls |-> 0]

NextProjections ==
    \/ SnapshotProjectCall
    \/ \E cfg \in TranscriptConfigs : TranscriptProjectCall(cfg)
    \/ MarkdownProjectCall

SpecProjections == InitProjections /\ [][NextProjections]_vars

\* async with Observer(store) as observer: a block that subscribes, records
\* and unsubscribes, one call after another, and is left by its end or by
\* an exception
InitScope ==
    /\ backend \in Backends
    /\ audit = FALSE
    /\ clockMax = MaxClock
    /\ InitState
    /\ fnCall = NoScope

NextScope ==
    \/ AEnter
    \/ \E error \in BOOLEAN : AExit(error)
    \/ \E et \in EventTypes, c \in CorrelationIds, p \in Payloads :
          InBlock(Record(1, et, c, p))
    \/ \E cb \in Callbacks : InBlock(Subscribe(cb))
    \/ \E sid \in 1..MaxSubscribes : InBlock(Unsubscribe(sid))
    \/ \E i \in 1..MaxSubscribes : CallbackStart(1, i)
    \/ \E i \in 1..MaxSubscribes, o \in {"done", "failed"} : CallbackEnd(1, i, o)
    \/ RecordReturn(1)
    \/ SqlInsert(1)
    \/ SqlCommit(1)
    \/ SqlClose

SpecScope == InitScope /\ [][NextScope]_vars

TypeOK ==
    /\ backend \in StoreKinds
    /\ \A t \in Tasks : pc[t] \in {"idle", "append_execute", "append_commit",
                                    "append_open", "append_write", "append_exit",
                                    "notifying"}
    /\ Len(events) <= MaxEvents + 1

\* ---- the steps the properties speak about ----

\* EventEnvelope.create has built a new envelope in this step
Created == nextEventId' = nextEventId + 1

\* the call in slot t has its append behind it and takes the registry
FanoutBegins(t) == pc[t] # "notifying" /\ pc'[t] = "notifying"

\* the append of the call in slot t succeeded and the call returned at once
ReturnsWithoutFanout(t) ==
    \/ /\ backend = "memory" /\ pc[t] = "idle" /\ pc'[t] = "idle"
       /\ cur' = cur /\ events' # events
    \/ /\ pc[t] = "append_commit" /\ pc'[t] = "idle" /\ last' = "returned"

\* the call in slot t leaves _notify_subscribers
LeavesFanout(t) == pc[t] = "notifying" /\ pc'[t] = "idle"

\* the append of the call in slot t raised
AppendRaises(t) ==
    /\ pc[t] \in {"append_execute", "append_commit"}
    /\ pc'[t] = "idle"
    /\ last' = "raised"

\* a callback of the call in slot t is invoked
CallbackInvoked(t) == Len(hist'[t].started) > Len(hist[t].started)

\* the subscriptions the fan-out of slot t has invoked so far
StartedSids(t) == {hist[t].started[i].sid : i \in 1..Len(hist[t].started)}

\* ---- properties ----

\* C1: the envelope a record call creates carries an event_id that no event
\* of the store carries, and the append adds exactly that envelope: count()
\* grows by one
C1_RecordAddsOneFreshEvent ==
    [][ /\ Created => Uuid4(nextEventId) \notin EventIds(Rows)
        /\ (Created /\ backend = "memory") =>
              /\ Len(events') = Len(events) + 1
              /\ events'[Len(events')].event_id \notin EventIds(events)
              /\ SubSeq(events', 1, Len(events)) = events
        /\ \A t \in Tasks :
              (pc[t] = "append_execute" /\ pc'[t] = "append_commit") =>
                  /\ cur[t].event.event_id \notin EventIds(Rows)
                  /\ Rows' = Append(Rows, cur[t].event)
      ]_vars

\* two record calls have returned and the store holds their two events
C1_Witness ==
    /\ last = "returned"
    /\ \A t \in Tasks : pc[t] = "idle"
    /\ Len(events) = 2
    /\ events[1].event_id # events[2].event_id

C3_FailedAppendLeavesNoTrace ==
    [][ \A t \in Tasks :
            AppendRaises(t) =>
                /\ hist[t].started = <<>>
                /\ cur[t].coros = <<>>
                /\ pc[t] = "append_execute" => Rows' = Rows
                /\ pc[t] = "append_commit" =>
                      cur[t].event.event_id \notin EventIds(Rows')
      ]_vars

\* C4: a callback that raises never makes the record call raise, the other
\* subscriptions of the fan-out are still invoked, and the event stays in
\* the store
C4_SubscriberIsolation ==
    [][ \A t \in Tasks :
            /\ LeavesFanout(t) => last' = "returned"
            /\ (pc[t] = "notifying" /\ hist[t].failed) =>
                  /\ cur[t].event \in Range(events')
                  /\ pc'[t] = "notifying" => cur'[t].coros = cur[t].coros
                  /\ LeavesFanout(t) => StartedSids(t) = Sids(cur[t].coros)
      ]_vars

\* a callback has raised and both subscriptions of the fan-out have run
C4_Witness ==
    \E t \in Tasks :
        /\ pc[t] = "notifying"
        /\ hist[t].failed
        /\ Len(cur[t].coros) = 2
        /\ hist[t].ended = {1, 2}

\* C5: when a record call returns, every subscription that was registered
\* when its append completed has been invoked exactly once, with the
\* envelope of the call; the call skips the fan-out only when the registry
\* is empty
C5_EachSubscriptionOnce ==
    [][ \A t \in Tasks :
            /\ (LeavesFanout(t) /\ last' = "returned") =>
                  /\ Len(hist[t].started) = Cardinality(hist[t].snap)
                  /\ \A sid \in hist[t].snap :
                        \E i \in 1..Len(hist[t].started) :
                            /\ hist[t].started[i].sid = sid
                            /\ hist[t].started[i].event_id = cur[t].event.event_id
            /\ ReturnsWithoutFanout(t) => subscriptions = <<>>
      ]_vars

\* two subscriptions of a MemoryEventStore observer have both been invoked
C5_Witness ==
    \E t \in Tasks :
        /\ backend = "memory"
        /\ pc[t] = "notifying"
        /\ hist[t].snap = {1, 2}
        /\ Len(hist[t].started) = 2

\* C6: a fan-out invokes only subscriptions that were registered when the
\* append of its event completed, and subscribe itself invokes nothing and
\* joins no fan-out
C6_NoReplayOnSubscribe ==
    /\ [](\A t \in Tasks : StartedSids(t) \subseteq hist[t].snap)
    /\ [][ nextSubId' # nextSubId => (cur' = cur /\ hist' = hist) ]_vars

\* subscription 2 was made while the fan-out of a stored event was under
\* way, and that fan-out has finished without it
C6_Witness ==
    \E t \in Tasks :
        /\ pc[t] = "notifying"
        /\ hist[t].snap = {1}
        /\ hist[t].ended = {1}
        /\ 2 \in Sids(subscriptions)
        /\ cur[t].event \in Range(events)

\* C7: unsubscribe returns true exactly when its id is registered, and it
\* removes that subscription and no other; otherwise the registry stays as
\* it is
C7_UnsubscribeResult ==
    [][ lastUnsub' # lastUnsub =>
            /\ lastUnsub'.result = (lastUnsub'.sid \in Sids(subscriptions))
            /\ subscriptions' =
                  SelectSeq(subscriptions, LAMBDA s : s.sid # lastUnsub'.sid)
            /\ ~lastUnsub'.result => subscriptions' = subscriptions
      ]_vars

\* a second unsubscribe of the same id has returned false and the other
\* subscription is still registered
C7_Witness ==
    /\ lastUnsub = [sid |-> 1, result |-> FALSE]
    /\ 1 \in unsubscribed
    /\ Sids(subscriptions) = {2}

\* C8: a fan-out that begins after unsubscribe(id) returned true does not
\* hold that subscription and holds every subscription still registered,
\* and only subscriptions a fan-out holds are invoked
C8_NoDeliveryAfterUnsubscribe ==
    [][ \A t \in Tasks :
            /\ FanoutBegins(t) =>
                  /\ Sids(cur'[t].coros) \cap unsubscribed = {}
                  /\ Sids(cur'[t].coros) = Sids(subscriptions)
            /\ CallbackInvoked(t) =>
                  hist'[t].started[Len(hist'[t].started)].sid \in Sids(cur[t].coros)
      ]_vars

\* subscription 1 was unsubscribed before the fan-out began, and the
\* fan-out has invoked subscription 2
C8_Witness ==
    \E t \in Tasks :
        /\ pc[t] = "notifying"
        /\ 1 \in unsubscribed
        /\ Sids(cur[t].coros) = {2}
        /\ StartedSids(t) = {2}

IsPrefix(a, b) == Len(a) <= Len(b) /\ SubSeq(b, 1, Len(a)) = a

NonDecreasing(evs) ==
    \A i \in 1..(Len(evs) - 1) : evs[i].timestamp <= evs[i + 1].timestamp

WithTimestamp(evs, ts) == SelectSeq(evs, LAMBDA e : e.timestamp = ts)

\* the events of one timestamp come in the result in the order they have
\* among the events appended
TiesInAppendOrder(result, appendOrder) ==
    result.ok =>
        \A ts \in 0..MaxStoreClock :
            WithTimestamp(result.value, ts) = WithTimestamp(appendOrder, ts)

DistinctEventIds(evs) ==
    \A i, j \in 1..Len(evs) : evs[i].event_id = evs[j].event_id => i = j

\* C12: no call on a store instance removes or changes an event the store
\* holds, and a get_all() that returns still returns every such event
C12_AppendOnly ==
    [][ lastCall'.op # "reopen" =>
            \A k \in StoreKinds :
                /\ IsPrefix(Contents(k), Contents(k)')
                /\ StoreGetAll(k)'.ok =>
                      \A i \in 1..Len(Contents(k)) :
                          Contents(k)[i] \in Range(StoreGetAll(k)'.value)
      ]_vars

\* C13: no store ever holds two events with the same event_id, and an
\* append of an event_id the store holds raises and adds nothing
C13_EventIdUnique ==
    /\ [](\A k \in StoreKinds : DistinctEventIds(Contents(k)))
    /\ [][ lastCall'.op = "append" =>
              \A k \in StoreKinds :
                  (\E i \in 1..Len(Contents(k)) :
                       Contents(k)[i].event_id =
                           memStore'.events[Len(memStore'.events)].event_id)
                  => (lastCall'.out[k] = "raised" /\ Contents(k)' = Contents(k))
         ]_vars

Stored == IF backend = "json" THEN JsonLoadAllEvents ELSE Rows

\* the call in slot t writes its event to the store in this step
StoreWrites(t) ==
    \/ backend = "memory" /\ FreeSlot(t) /\ events' # events
    \/ pc[t] = "append_execute" /\ pc'[t] = "append_commit"
    \/ pc[t] = "append_exit" /\ pc'[t] # "append_exit"

\* the await of store.append in slot t returns normally in this step
AppendReturns(t) ==
    \/ backend = "memory" /\ FreeSlot(t) /\ events' # events
    \/ pc[t] = "append_commit" /\ pc'[t] # "append_commit" /\ ~AppendRaises(t)
    \/ pc[t] = "append_exit" /\ pc'[t] # "append_exit"

\* C16: with record and record_raw calls in flight together, every step
\* leaves the stored events in place, the store grows only by the write of
\* one call and then by exactly that call's envelope, and a call whose
\* append returns has its own envelope in the store; so N calls whose
\* appends succeed leave N events, one of each call
C16_ConcurrentCallsEachStored ==
    [][ /\ IsPrefix(Stored, Stored')
        /\ Stored' # Stored =>
              /\ Len(Stored') = Len(Stored) + 1
              /\ \E t \in Tasks : StoreWrites(t)
        /\ \A t \in Tasks :
              /\ (StoreWrites(t) /\ backend # "memory") =>
                    Stored' = Append(Stored, cur[t].event)
              /\ (FreeSlot(t) /\ backend = "memory" /\ Created) =>
                    /\ Len(Stored') = Len(Stored) + 1
                    /\ Stored'[Len(Stored')].event_id = Uuid4(nextEventId)
                    /\ Stored'[Len(Stored')].timestamp = now'
              /\ (AppendReturns(t) /\ backend # "memory") =>
                    cur[t].event \in Range(Stored')
      ]_vars

\* over the log-file store two calls were in flight together and both have
\* returned: the file holds the event created second before the event
\* created first
C16_Witness ==
    /\ backend = "json"
    /\ \A t \in Tasks : pc[t] = "idle"
    /\ last = "returned"
    /\ Len(Stored) = 2
    /\ Stored[1].event_id = 2
    /\ Stored[2].event_id = 1

\* C17: what get_all() of the log-file and of the relational store returns
\* is exactly the envelopes the store has accepted, whichever instance
\* accepted them, and initialize, close and a new instance leave the file
\* as it is
C17_DurableAcrossRestarts ==
    /\ [](\A k \in {"json", "sqlite"} :
              StoreGetAll(k).ok =>
                  StoreGetAll(k).value = SortedByTimestamp(appended[k]))
    /\ [][ lastCall'.op \in {"initialize", "close", "reopen"} =>
              /\ jsonFile.exists => jsonFile' = jsonFile
              /\ sqliteFile'.rows = sqliteFile.rows
         ]_vars

\* a new instance has been initialized over the files that held two events
\* when it was constructed
C17_Witness ==
    /\ instance.fresh
    /\ instance.inherited = 2
    /\ instance.initialized
    /\ sqliteStore.db
    /\ Len(jsonFile.lines) = 2

\* the three stores have ended the latest call the same way and answer
\* every query the same way
BackendsAgree ==
    \A k1, k2 \in StoreKinds :
        /\ lastCall.out[k1] = lastCall.out[k2]
        /\ StoreGetAll(k1) = StoreGetAll(k2)
        /\ StoreCount(k1) = StoreCount(k2)
        /\ \A c \in StoreCorrelationIds : StoreQuery(k1, c) = StoreQuery(k2, c)
        /\ \A et \in StoreEventTypes :
              StoreQueryByType(k1, et) = StoreQueryByType(k2, et)
        /\ \A since \in 0..MaxStoreClock :
              StoreQuerySince(k1, since) = StoreQuerySince(k2, since)

\* C18: after every call of a sequence of initialize, append and close
\* calls given to all three stores, the stores have ended the call the same
\* way and answer every query the same way
C18_BackendsAgree ==
    [][ (~instance'.fresh /\ ~instance'.cleared) => BackendsAgree' ]_vars

\* C19: on an instance on which initialize() has not been called, every
\* query raises, and every append raises and records nothing
C19_UseBeforeInitializeFails ==
    /\ [][ ~instance'.initialized =>
              \A k \in StoreKinds, c \in StoreCorrelationIds : ~StoreQuery(k, c)'.ok
         ]_vars
    /\ [][ (lastCall'.op = "append" /\ ~instance.initialized) =>
              \A k \in StoreKinds :
                  lastCall'.out[k] = "raised" /\ Contents(k)' = Contents(k)
         ]_vars

\* C20: on an instance on which close() has been called, every query
\* raises, and every append raises and changes nothing
C20_UseAfterCloseFails ==
    /\ [](instance.closed =>
              \A k \in StoreKinds :
                  /\ ~StoreGetAll(k).ok
                  /\ \A c \in StoreCorrelationIds : ~StoreQuery(k, c).ok)
    /\ [][ (lastCall'.op = "append" /\ instance.closed) =>
              \A k \in StoreKinds :
                  lastCall'.out[k] = "raised" /\ Contents(k)' = Contents(k)
         ]_vars

\* ---- properties of record, record_raw and the envelope ----

\* C21: no event of the store has an empty or missing correlation_id: a
\* record call with such a correlation_id fails and appends nothing
C21_CorrelationIdRequired ==
    \A i \in 1..Len(Stored) : Stored[i].correlation_id \notin {"", None}

\* C22: a record_raw call appends exactly the envelope it was given, once
\* (at once on the in-memory store, at the call's write otherwise), takes
\* every subscription there is when the append has returned and invokes each
\* with that envelope, and the envelope stays as it was during the call
C22_RecordRawAppendsEnvelopeUnchanged ==
    [][ \A t \in Tasks :
            /\ \A e \in Envelopes :
                  RecordRaw(t, e) =>
                      /\ backend = "memory" =>
                            /\ Stored' = Append(Stored, e)
                            /\ subscriptions # <<>> => cur'[t].event = e
                      /\ backend # "memory" =>
                            /\ Stored' = Stored
                            /\ pc'[t] # "idle" => cur'[t].event = e
            /\ (cur[t].event # NoEvent /\ cur'[t].event # NoEvent) =>
                  cur'[t].event = cur[t].event
            /\ (StoreWrites(t) /\ backend # "memory") =>
                  Stored' = Append(Stored, cur[t].event)
            /\ FanoutBegins(t) => cur'[t].coros = subscriptions
            /\ CallbackInvoked(t) =>
                  hist'[t].started[Len(hist'[t].started)].event_id =
                      cur[t].event.event_id
            /\ (LeavesFanout(t) /\ last' = "returned") =>
                  /\ Len(hist[t].started) = Len(cur[t].coros)
                  /\ cur[t].event \in Range(Stored)
      ]_vars

\* the in-memory store holds the same envelope twice, which only a
\* record_raw of a stored envelope brings about, and the callback of that
\* call has been invoked with it and has finished
C22_Witness ==
    /\ backend = "memory"
    /\ Len(events) = 2
    /\ events[1] = events[2]
    /\ \E t \in Tasks :
          /\ pc[t] = "notifying"
          /\ cur[t].event = events[2]
          /\ cur[t].cbstate = <<"finished">>

\* C23: EventEnvelope.from_dict applied to the dictionary e.to_dict()
\* returned gives an envelope equal to e in every field
C23_RoundTrip ==
    [][ (fnCall.fn = "to_dict" /\ fnCall'.fn = "from_dict") =>
            /\ fnCall'.out.restored = fnCall.arg
            /\ DOMAIN fnCall'.out.restored = DOMAIN fnCall.arg
            /\ \A f \in DOMAIN fnCall.arg : fnCall'.out.restored[f] = fnCall.arg[f]
      ]_vars

\* an envelope of a workflow-completed event from an agent of a named
\* runtime, with agent_name, causation_id and microseconds, has come back
\* from from_dict
C23_Witness ==
    /\ fnCall.fn = "from_dict"
    /\ fnCall.out.restored.event_type = "system.workflow_completed"
    /\ fnCall.out.restored.source = [origin |-> "agent", runtime |-> "ag2",
                                     agent_name |-> "TestAgent"]
    /\ fnCall.out.restored.causation_id # None
    /\ fnCall.out.restored.timestamp % 2 = 1

\* ---- properties of the queries ----

IsQueryCall ==
    lastCall'.op \in {"query", "query_by_type", "query_since", "get_all", "count"}

get_events(correlation_id) ==
    SortedByTimestamp(SelectSeq(Stored, LAMBDA e : e.correlation_id = correlation_id))

\* the events of the correlation id in the order the record calls of the one
\* producer were made
RecordedInCallOrder(correlation_id) ==
    SelectSeq(Stored, LAMBDA e : e.correlation_id = correlation_id)

\* C26: the timestamps of the events one producer records one call after
\* another with one correlation id never decrease, and get_events returns the
\* events in the order of the calls
C26_TimestampsNonDecreasing ==
    \A c \in CorrelationIds :
        /\ NonDecreasing(RecordedInCallOrder(c))
        /\ get_events(c) = RecordedInCallOrder(c)

\* ---- properties of the log file after a kill ----

\* the last line of the file was cut short and every line before it is whole
LastLineTruncated ==
    /\ jsonFile.exists
    /\ jsonFile.lines # <<>>
    /\ ~JsonDecodes(jsonFile.lines[Len(jsonFile.lines)])
    /\ \A i \in 1..(Len(jsonFile.lines) - 1) : JsonDecodes(jsonFile.lines[i])

\* the events of the whole lines of the file, in the order of the lines
CompleteEvents ==
    LET whole == SelectSeq(jsonFile.lines, JsonDecodes)
    IN [i \in 1..Len(whole) |-> FromDict(JsonLoads(whole[i]))]

\* C27: with the last line of the file cut short, get_all and query of the
\* JSON store opened again return the events of the whole lines before it
\* and no event of the cut line
C27_TruncatedLastLineTolerated ==
    (jsonStore.initialized /\ LastLineTruncated) =>
        /\ lastCall.op = "get_all" =>
              /\ lastCall.result["json"].ok
              /\ lastCall.result["json"].value = SortedByTimestamp(CompleteEvents)
        /\ lastCall.op = "query" =>
              /\ lastCall.result["json"].ok
              /\ lastCall.result["json"].value =
                    SortedByTimestamp(SelectSeq(CompleteEvents,
                        LAMBDA e : e.correlation_id = lastCall.arg.correlation_id))

\* ---- properties of the projections ----

\* C28: on an empty sequence of events SnapshotProjection.project raises the
\* error of an empty input and gives no snapshot, and the two transcript
\* projections return the empty string
C28_EmptyInput ==
    fnCall.arg = <<>> =>
        /\ fnCall.fn = "snapshot" =>
              /\ fnCall.out.raised
              /\ fnCall.out.error = "ValueError"
              /\ fnCall.out.snapshot = NoSnapshot
        /\ fnCall.fn \in {"transcript", "markdown"} =>
              /\ ~fnCall.out.raised
              /\ fnCall.out.text = EmptyString

\* SnapshotProjection.project has been called on the empty sequence
C28_Witness ==
    /\ fnCall.fn = "snapshot"
    /\ fnCall.arg = <<>>
    /\ fnCall.out.raised

\* the places of the sequence that hold a message, tool-call or tool-result
\* event
MessagePlaces(evs) == {i \in 1..Len(evs) : evs[i].event_type \in MessageKinds}

\* C29: the messages of the snapshot of a non-empty sequence have one entry
\* for every message, tool-call and tool-result event, in the order of the
\* sequence, with the event_id, type and timestamp of that event, and
\* round_count is the number of message events
C29_MessagesAndRounds ==
    (fnCall.fn = "snapshot" /\ fnCall.arg # <<>>) =>
        LET evs == fnCall.arg
            snapshot == fnCall.out.snapshot
        IN /\ ~fnCall.out.raised
           /\ Len(snapshot.messages) = Cardinality(MessagePlaces(evs))
           /\ \A i \in MessagePlaces(evs) :
                 LET k == Cardinality({j \in MessagePlaces(evs) : j <= i})
                 IN /\ snapshot.messages[k].tag_event_id = evs[i].event_id
                    /\ snapshot.messages[k].tag_event_type = evs[i].event_type
                    /\ FromIsoFormat(snapshot.messages[k].tag_timestamp) = evs[i].timestamp
                    /\ snapshot.messages[k].content = evs[i].payload.content
           /\ snapshot.round_count =
                 Cardinality({i \in 1..Len(evs) : evs[i].event_type = "execution.message"})

\* the snapshot of a tool call that follows a message: two entries, one round
C29_Witness ==
    /\ fnCall.fn = "snapshot"
    /\ Len(fnCall.arg) = 2
    /\ fnCall.arg[1].event_type = "execution.message"
    /\ fnCall.arg[2].event_type = "execution.tool_call"
    /\ Len(fnCall.out.snapshot.messages) = 2
    /\ fnCall.out.snapshot.round_count = 1

\* the places of the sequence that hold a completion event
CompletionPlaces(evs) == {i \in 1..Len(evs) : evs[i].event_type \in CompletionKinds}

\* C30: the snapshot is terminated exactly when the sequence holds an
\* execution-completed or workflow-completed event, and its reason is then
\* the reason of the last such event of the sequence; otherwise it has no
\* reason
C30_Termination ==
    (fnCall.fn = "snapshot" /\ fnCall.arg # <<>>) =>
        LET evs == fnCall.arg
            snapshot == fnCall.out.snapshot
        IN /\ snapshot.is_terminated <=> CompletionPlaces(evs) # {}
           /\ CompletionPlaces(evs) # {} =>
                 \E i \in CompletionPlaces(evs) :
                    /\ \A j \in CompletionPlaces(evs) : j <= i
                    /\ snapshot.termination_reason = evs[i].payload.reason
           /\ CompletionPlaces(evs) = {} => snapshot.termination_reason = None

\* the snapshot of two completion events with different reasons
C30_Witness ==
    /\ fnCall.fn = "snapshot"
    /\ Len(fnCall.arg) = 2
    /\ fnCall.arg[1].event_type = "execution.completed"
    /\ fnCall.arg[1].payload.reason = "done"
    /\ fnCall.arg[2].event_type = "system.workflow_completed"
    /\ fnCall.arg[2].payload.reason = "max_rounds"
    /\ fnCall.out.snapshot.is_terminated
    /\ fnCall.out.snapshot.termination_reason = "max_rounds"

RECURSIVE SplitLines(_)
SplitLines(text) ==
    IF text = <<>> THEN <<EmptyString>>
    ELSE LET before == SplitLines(SubSeq(text, 1, Len(text) - 1))
         IN IF text[Len(text)] = "\n"
            THEN Append(before, EmptyString)
            ELSE [before EXCEPT ![Len(before)] = Append(@, text[Len(text)])]

\* the lines of a transcript between the five lines of its header and the
\* two of its end
EventLinesOf(text) ==
    LET lines == SplitLines(text)
    IN SubSeq(lines, 6, Len(lines) - 2)

TranscriptKinds ==
    {"execution.message", "execution.tool_call", "execution.tool_result",
     "execution.handoff", "system.workflow_started", "system.workflow_completed",
     "execution.completed"}

\* a message event with no content or an empty one
EmptyMessage(e) ==
    e.event_type = "execution.message" /\ e.payload.content \in {None, ""}

\* C32: the transcript of a non-empty sequence has at most one line for each
\* event: none for a message event whose content is empty or absent, none
\* for an event of no transcript kind when include_metadata is off, and when
\* it is on one line for such an event, which ends in the bracketed type
\* and the raw payload
C32_TranscriptLines ==
    (fnCall.fn = "transcript" /\ fnCall.arg # <<>>) =>
        LET evs == fnCall.arg
            cfg == fnCall.cfg
            lines == EventLinesOf(fnCall.out.text)
            never == {i \in 1..Len(evs) :
                        \/ EmptyMessage(evs[i])
                        \/ evs[i].event_type \notin TranscriptKinds /\ ~cfg.include_metadata}
            raw == {i \in 1..Len(evs) :
                        evs[i].event_type \notin TranscriptKinds /\ cfg.include_metadata}
        IN /\ Len(lines) <= Len(evs) - Cardinality(never)
           /\ Len(lines) >= Cardinality(raw)
           /\ \A i \in raw :
                 \E k \in 1..Len(lines) :
                    /\ Len(lines[k]) >= 4
                    /\ SubSeq(lines[k], Len(lines[k]) - 3, Len(lines[k])) =
                          <<"[", evs[i].event_type, "] ", ToString(evs[i].payload)>>
           /\ Len(evs) = Cardinality(never) + Cardinality(raw) =>
                 Len(lines) = Cardinality(raw)

\* the transcript, with metadata, of a message without content followed by
\* a state change: one line, of the state change
C32_Witness ==
    /\ fnCall.fn = "transcript"
    /\ fnCall.cfg.include_metadata
    /\ Len(fnCall.arg) = 2
    /\ fnCall.arg[1].event_type = "execution.message"
    /\ fnCall.arg[1].payload.content = None
    /\ fnCall.arg[2].event_type = "execution.state_change"
    /\ Len(EventLinesOf(fnCall.out.text)) = 1

\* the places of the sequence whose event the Markdown projection gives an
\* entry, and those whose event the transcript of the default configuration
\* gives a line
MarkdownPlaces(evs) ==
    {i \in 1..Len(evs) : MarkdownFormatEvent(evs[i]) # <<>>}

TranscriptPlaces(evs) ==
    {i \in 1..Len(evs) : TranscriptFormatEvent(DefaultTranscript, evs[i]) # <<>>}

\* C33: the events the Markdown projection gives an entry are the events the
\* transcript of the default configuration gives a line, and the Markdown
\* text has as many entries, each followed by an empty line, after the
\* eight lines of its header
C33_MarkdownSameEvents ==
    (fnCall.fn = "markdown" /\ fnCall.arg # <<>>) =>
        /\ MarkdownPlaces(fnCall.arg) = TranscriptPlaces(fnCall.arg)
        /\ Len(SplitLines(fnCall.out.text)) - 8 =
              2 * Cardinality(TranscriptPlaces(fnCall.arg))

\* C39: with include_tool_calls off, whatever include_metadata is, the
\* transcript has no line for a tool-call or tool-result event: it has at
\* most one line for each other event, and no line names the type of a
\* tool event
C39_NoToolLines ==
    (fnCall.fn = "transcript" /\ fnCall.arg # <<>> /\ ~fnCall.cfg.include_tool_calls) =>
        LET evs == fnCall.arg
            lines == EventLinesOf(fnCall.out.text)
            others == {i \in 1..Len(evs) :
                         evs[i].event_type \notin
                             {"execution.tool_call", "execution.tool_result"}}
        IN /\ Len(lines) <= Cardinality(others)
           /\ \A k \in 1..Len(lines) : \A j \in 1..Len(lines[k]) :
                 lines[k][j] \notin {"execution.tool_call", "execution.tool_result"}

\* ---- properties of the Observer as a scoped resource ----

\* the async with statement is over: the block was left and the __aexit__
\* it awaited, if any, has returned
ScopeLeft == fnCall.at = "left" /\ (fnCall.closeCalled => closeReturned)

\* C34: when the async with statement over an Observer is over, however the
\* block was left, close() was called: no subscription is registered and
\* the store was closed
C34_ScopedRelease ==
    ScopeLeft =>
        /\ fnCall.closeCalled
        /\ closeReturned
        /\ subscriptions = <<>>
        /\ backend = "sqlite" => ~db

\* the block was left by an exception after it subscribed and recorded an
\* event on a SQLite store
C34_Witness ==
    /\ ScopeLeft
    /\ fnCall.error
    /\ backend = "sqlite"
    /\ closedSids # {}
    /\ Len(Rows) > 0

\* ---- storage/memory_adapter.py, storage/sqlite_adapter.py: the snapshot adapters ----

AdapterKinds == {"memory", "sqlite"}

ChatIds == {"chat-1", "chat-2"}

SnapshotTimes == 0..1

\* the ChatSnapshot values the callers save; the fields the adapters do not
\* read keep their defaults and are left out
Snapshots ==
    [chat_id : ChatIds, chat_type : {"group"}, timestamp : SnapshotTimes,
     messages : {<<>>, <<"message">>}, is_terminated : BOOLEAN]

\* no snapshot: the None that load_snapshot returns
NoStored ==
    [chat_id |-> None, chat_type |-> None, timestamp |-> -1, messages |-> <<>>,
     is_terminated |-> FALSE]

\* ChatSnapshot.to_dict / ChatSnapshot.from_dict
SnapshotToDict(s) == [s EXCEPT !.timestamp = IsoFormat(@)]

SnapshotFromDict(data) == [data EXCEPT !.timestamp = FromIsoFormat(@)]

\* storage/base.py defines EventStore and nothing else: the name
\* StorageAdapter, which both adapter modules import from it, is not there
StorageAdapterDefined == FALSE

\* from .base import StorageAdapter, run when the adapter's module is loaded
AdapterImports == StorageAdapterDefined

HasSnapshot(storage, chat_id) ==
    \E i \in 1..Len(storage) : storage[i].chat_id = chat_id

\* MemoryStorageAdapter: _storage is a dict, which keeps its keys in the order
\* of their first insertion
MemorySaveSnapshot(storage, s) ==
    IF HasSnapshot(storage, s.chat_id)
    THEN [i \in 1..Len(storage) |->
             IF storage[i].chat_id = s.chat_id THEN s ELSE storage[i]]
    ELSE Append(storage, s)

MemoryLoadSnapshot(storage, chat_id) ==
    IF HasSnapshot(storage, chat_id)
    THEN storage[CHOOSE i \in 1..Len(storage) : storage[i].chat_id = chat_id]
    ELSE NoStored

MemoryListSnapshots(storage) ==
    [i \in 1..Len(storage) |->
        [chat_id |-> storage[i].chat_id,
         chat_type |-> storage[i].chat_type,
         timestamp |-> IsoFormat(storage[i].timestamp),
         message_count |-> Len(storage[i].messages),
         is_terminated |-> storage[i].is_terminated]]

MemoryDeleteSnapshot(storage, chat_id) ==
    SelectSeq(storage, LAMBDA s : s.chat_id # chat_id)

\* SQLiteStorageAdapter: the rows of chat_snapshots in the order of their
\* rowid; chat_id is the primary key, so INSERT OR REPLACE deletes the row of
\* the same chat_id and inserts the new one
SnapshotRow(s) ==
    [chat_id |-> s.chat_id,
     chat_type |-> s.chat_type,
     timestamp |-> IsoFormat(s.timestamp),
     data |-> JsonDumps(SnapshotToDict(s)),
     is_terminated |-> s.is_terminated]

SqliteSaveSnapshot(storage, s) ==
    Append(SelectSeq(storage, LAMBDA r : r.chat_id # s.chat_id), SnapshotRow(s))

SqliteLoadSnapshot(storage, chat_id) ==
    IF HasSnapshot(storage, chat_id)
    THEN SnapshotFromDict(JsonLoads(
             storage[CHOOSE i \in 1..Len(storage) : storage[i].chat_id = chat_id].data))
    ELSE NoStored

\* ORDER BY timestamp DESC: the index on timestamp read from its end
RECURSIVE InsertRowDesc(_, _)
InsertRowDesc(sorted, r) ==
    IF sorted = <<>> THEN <<r>>
    ELSE IF TextLess(r.timestamp, Head(sorted).timestamp)
         THEN <<Head(sorted)>> \o InsertRowDesc(Tail(sorted), r)
         ELSE <<r>> \o sorted

RECURSIVE OrderByTimestampDesc(_)
OrderByTimestampDesc(rows) ==
    IF rows = <<>> THEN <<>>
    ELSE InsertRowDesc(OrderByTimestampDesc(SubSeq(rows, 1, Len(rows) - 1)),
                       rows[Len(rows)])

SqliteListSnapshots(storage) ==
    LET rows == OrderByTimestampDesc(storage)
    IN  [i \in 1..Len(rows) |->
            [chat_id |-> rows[i].chat_id,
             chat_type |-> rows[i].chat_type,
             timestamp |-> rows[i].timestamp,
             message_count |-> Len(JsonLoads(rows[i].data).messages),
             is_terminated |-> rows[i].is_terminated]]

SqliteDeleteSnapshot(storage, chat_id) ==
    SelectSeq(storage, LAMBDA r : r.chat_id # chat_id)

\* the adapter of the kind in use
SaveSnapshot(kind, storage, s) ==
    IF kind = "memory" THEN MemorySaveSnapshot(storage, s)
    ELSE SqliteSaveSnapshot(storage, s)

LoadSnapshot(kind, storage, chat_id) ==
    IF kind = "memory" THEN MemoryLoadSnapshot(storage, chat_id)
    ELSE SqliteLoadSnapshot(storage, chat_id)

ListSnapshots(kind, storage) ==
    IF kind = "memory" THEN MemoryListSnapshots(storage)
    ELSE SqliteListSnapshots(storage)

DeleteSnapshot(kind, storage, chat_id) ==
    IF kind = "memory" THEN MemoryDeleteSnapshot(storage, chat_id)
    ELSE SqliteDeleteSnapshot(storage, chat_id)

\* a caller's program: it loads the adapter's module, holds one adapter and
\* makes its calls on it. requested and present are history: what the calls
\* made so far ask the adapter to hold, and whether the chat_id of the call
\* was among it
NoAdapterCall(kind) ==
    [fn |-> "none", kind |-> kind, storage |-> <<>>,
     requested |-> [c \in ChatIds |-> NoStored], chat_id |-> None,
     present |-> FALSE, error |-> None, loaded |-> NoStored, listed |-> <<>>,
     deleted |-> FALSE]

AdapterCall(fn, chat_id, storage, requested, loaded, listed, deleted) ==
    /\ fnCall' =
          IF AdapterImports
          THEN [fnCall EXCEPT !.fn = fn, !.chat_id = chat_id, !.storage = storage,
                              !.requested = requested,
                              !.present = (chat_id # None
                                           /\ fnCall.requested[chat_id] # NoStored),
                              !.error = None, !.loaded = loaded,
                              !.listed = listed, !.deleted = deleted]
          ELSE [fnCall EXCEPT !.fn = fn, !.chat_id = chat_id,
                              !.requested = requested,
                              !.present = (chat_id # None
                                           /\ fnCall.requested[chat_id] # NoStored),
                              !.error = "ImportError", !.loaded = NoStored,
                              !.listed = <<>>, !.deleted = FALSE]
    /\ UNCHANGED observerVars
    /\ UNCHANGED apiVars

SaveSnapshotCall(s) ==
    AdapterCall("save_snapshot", s.chat_id,
                SaveSnapshot(fnCall.kind, fnCall.storage, s),
                [fnCall.requested EXCEPT ![s.chat_id] = s],
                NoStored, <<>>, FALSE)

LoadSnapshotCall(chat_id) ==
    AdapterCall("load_snapshot", chat_id, fnCall.storage, fnCall.requested,
                LoadSnapshot(fnCall.kind, fnCall.storage, chat_id), <<>>, FALSE)

ListSnapshotsCall ==
    AdapterCall("list_snapshots", None, fnCall.storage, fnCall.requested,
                NoStored, ListSnapshots(fnCall.kind, fnCall.storage), FALSE)

DeleteSnapshotCall(chat_id) ==
    AdapterCall("delete_snapshot", chat_id,
                DeleteSnapshot(fnCall.kind, fnCall.storage, chat_id),
                [fnCall.requested EXCEPT ![chat_id] = NoStored],
                NoStored, <<>>, HasSnapshot(fnCall.storage, chat_id))

InitAdapters ==
    /\ backend = "memory"
    /\ audit = FALSE
    /\ clockMax = MaxClock
    /\ InitState
    /\ \E kind \in AdapterKinds : fnCall = NoAdapterCall(kind)

NextAdapters ==
    \/ \E s \in Snapshots : SaveSnapshotCall(s)
    \/ \E chat_id \in ChatIds : LoadSnapshotCall(chat_id)
    \/ ListSnapshotsCall
    \/ \E chat_id \in ChatIds : DeleteSnapshotCall(chat_id)

SpecAdapters == InitAdapters /\ [][NextAdapters]_vars

\* ---- properties of the snapshot adapters ----

\* C35: the snapshot adapters are a map keyed by chat_id. load_snapshot
\* returns the snapshot saved last for the chat_id unless it was deleted
\* since, and nothing otherwise; list_snapshots has one entry for each
\* chat_id that is held and no other; delete_snapshot returns true exactly
\* when the chat_id was held.
C35_KeyByIdMap ==
    /\ fnCall.fn = "load_snapshot" =>
          fnCall.loaded = fnCall.requested[fnCall.chat_id]
    /\ fnCall.fn = "list_snapshots" =>
          \A c \in ChatIds :
             Cardinality({i \in 1..Len(fnCall.listed) : fnCall.listed[i].chat_id = c})
                = IF fnCall.requested[c] # NoStored THEN 1 ELSE 0
    /\ fnCall.fn = "delete_snapshot" => fnCall.deleted = fnCall.present

\* ---- properties of the registry around a suspended record call ----

\* C36: the fan-out of an event takes the registry as it stands when the
\* append of the event completes, not as it stood when record was called: a
\* subscription made while the call was suspended in the append is invoked
\* for the event, and one removed in that time is not
C36_RegistryWhenAppendCompletes ==
    [][ \A t \in Tasks :
            /\ FanoutBegins(t) => Sids(cur'[t].coros) = Sids(subscriptions')
            /\ (LeavesFanout(t) /\ last' = "returned") =>
                  /\ (hist[t].snap \ hist[t].atCall) \subseteq StartedSids(t)
                  /\ StartedSids(t) \cap (hist[t].atCall \ hist[t].snap) = {}
      ]_vars

\* subscription 1 was registered when record was called and was removed
\* during the append, subscription 2 was made during the append, and the
\* fan-out has invoked subscription 2 alone
C36_Witness ==
    \E t \in Tasks :
        /\ pc[t] = "notifying"
        /\ hist[t].atCall = {1}
        /\ hist[t].snap = {2}
        /\ StartedSids(t) = {2}
        /\ GatherDone(cur[t].cbstate)

\* C37: a change of the registry while a fan-out is under way (subscribe,
\* unsubscribe or close, made in a callback or by another task) leaves the
\* coroutines of the fan-out as they are: every subscription the fan-out
\* started with is invoked exactly once, one made during the fan-out is not
\* invoked for its event, and the fan-out returns
C37_FanoutKeepsItsCallbacks ==
    [][ \A t \in Tasks :
            /\ (pc[t] = "notifying" /\ subscriptions' # subscriptions) =>
                  /\ pc'[t] = "notifying"
                  /\ cur'[t] = cur[t]
            /\ (pc[t] = "notifying" /\ pc'[t] = "notifying") =>
                  cur'[t].coros = cur[t].coros
            /\ LeavesFanout(t) =>
                  /\ last' = "returned"
                  /\ StartedSids(t) = hist[t].snap
                  /\ Len(hist[t].started) = Cardinality(hist[t].snap)
      ]_vars

\* the fan-out started with subscription 1 alone; while it ran, subscription
\* 1 was removed and subscription 2 was made, and the callback of
\* subscription 1 has finished
C37_Witness ==
    \E t \in Tasks :
        /\ pc[t] = "notifying"
        /\ hist[t].snap = {1}
        /\ hist[t].ended = {1}
        /\ 1 \in unsubscribed
        /\ Sids(subscriptions) = {2}

\* ---- ingest/base.py, ingest/ag2.py: the AG2 ingest adapter ----

\* _last_event_id before the adapter has recorded anything (None); the ids
\* of the events are the positive numbers
NoEventId == 0

\* IngestAdapter.__init__
NoAdapter == [fn |-> "AG2IngestAdapter", correlation_id |-> "session_001",
              last_event_id |-> NoEventId]

\* _create_source
AG2Source(agent_name) == [origin |-> "agent", runtime |-> "ag2", agent_name |-> agent_name]

RawEvents == {"Hello"}

\* _normalize_event of a string
NormalizeEvent(raw_event) ==
    [event_type |-> "execution.message", payload |-> raw_event, agent_name |-> None]

\* AG2IngestAdapter.record up to the point where Observer.record suspends or
\* returns: causation_id is the value of _last_event_id when the call is
\* made; when record returns at once, _update_last_event follows in the same
\* step
AdapterRecord(t, raw_event) ==
    /\ fnCall.correlation_id # None
    /\ LET n == NormalizeEvent(raw_event)
       IN  RecordStep(t, n.event_type, fnCall.correlation_id, n.payload,
                      AG2Source(n.agent_name), fnCall.last_event_id)
    /\ fnCall' = IF pc'[t] = "idle" /\ last' = "returned"
                 THEN [fnCall EXCEPT !.last_event_id = Uuid4(nextEventId)]
                 ELSE fnCall

\* Observer.record returns the envelope after the fan-out, and
\* _update_last_event stores its event_id
AdapterRecordReturn(t) ==
    /\ RecordReturnStep(t)
    /\ fnCall' = [fnCall EXCEPT !.last_event_id = cur[t].event.event_id]

\* one adapter over an Observer with a MemoryEventStore; the tasks of the
\* program call the adapter's recording methods
InitIngest ==
    /\ backend = "memory"
    /\ audit = FALSE
    /\ clockMax = MaxClock
    /\ InitState
    /\ fnCall = NoAdapter

NextIngest ==
    \/ \E t \in Tasks, raw \in RawEvents : AdapterRecord(t, raw)
    \/ \E t \in Tasks : AdapterRecordReturn(t)
    \/ \E t \in Tasks, i \in 1..MaxSubscribes : CallbackStart(t, i)
    \/ \E t \in Tasks, i \in 1..MaxSubscribes, o \in {"done", "failed"} : CallbackEnd(t, i, o)
    \/ \E cb \in Callbacks : Subscribe(cb)
    \/ \E sid \in 1..MaxSubscribes : Unsubscribe(sid)
    \/ Initialize

SpecIngest == InitIngest /\ [][NextIngest]_vars

\* ---- properties of the ingest adapter ----

\* C38: the events recorded through one adapter form one causal chain: the
\* first has no causation_id, every later one has the event_id of the event
\* the adapter recorded just before it, and no two have the same
\* causation_id, also when the adapter's methods are called concurrently
C38_LinearCausalChain ==
    /\ \A i \in 1..Len(events) :
          events[i].causation_id =
              IF i = 1 THEN NoEventId ELSE events[i - 1].event_id
    /\ \A i, j \in 1..Len(events) :
          events[i].causation_id = events[j].causation_id => i = j

\* ---- record with collaborators that terminate ----

\* an Observer over either store; the tasks of the program record,
\* subscribe and unsubscribe
NextLive ==
    \/ \E t \in Tasks, et \in EventTypes, c \in CorrelationIds, p \in Payloads :
          Record(t, et, c, p)
    \/ \E t \in Tasks, i \in 1..MaxSubscribes : CallbackStart(t, i)
    \/ \E t \in Tasks, i \in 1..MaxSubscribes, o \in {"done", "failed"} : CallbackEnd(t, i, o)
    \/ \E t \in Tasks : RecordReturn(t)
    \/ \E cb \in Callbacks : Subscribe(cb)
    \/ \E sid \in 1..MaxSubscribes : Unsubscribe(sid)
    \/ Initialize
    \/ \E t \in Tasks : SqlInsert(t)
    \/ \E t \in Tasks : SqlCommit(t)

\* the store's append terminates: the aiosqlite worker runs each statement
\* it was handed. Every callback terminates, returning or raising. The event
\* loop runs every coroutine that is ready: it starts the coroutines of a
\* gather, and resumes the record call once the gather is done
CollaboratorsTerminate ==
    \A t \in Tasks :
        /\ WF_vars(SqlInsert(t))
        /\ WF_vars(SqlCommit(t))
        /\ WF_vars(\E i \in 1..MaxSubscribes : CallbackStart(t, i))
        /\ WF_vars(\E i \in 1..MaxSubscribes, o \in {"done", "failed"} :
                      CallbackEnd(t, i, o))
        /\ WF_vars(RecordReturn(t))

SpecLive == Init /\ [][NextLive]_vars /\ CollaboratorsTerminate

\* ---- properties of record with collaborators that terminate ----

\* C40: when the store's append terminates and every callback terminates,
\* every record call terminates, and a call that has reached the fan-out
\* ends by returning its envelope
C40_RecordTerminates ==
    \A t \in Tasks :
        /\ (pc[t] # "idle") ~> (pc[t] = "idle")
        /\ (pc[t] = "notifying") ~> (pc[t] = "idle" /\ last = "returned")

\* a record call over a SQLite store has its append behind it, both
\* callbacks of its fan-out have finished, one of them by raising, and the
\* call is about to return
C40_Witness ==
    \E t \in Tasks :
        /\ backend = "sqlite"
        /\ pc[t] = "notifying"
        /\ Len(cur[t].coros) = 2
        /\ GatherDone(cur[t].cbstate)
        /\ hist[t].failed

====
